---- MODULE Spec2Model ----
(***************************************************************************)
(* NeXs kernel: buddy allocator (kernel/buddy.c) and priority scheduler    *)
(* (kernel/scheduler.c), as state machines.                                *)
(*                                                                         *)
(* Addresses are byte addresses.  A block header (struct buddy_block) is   *)
(* kept in mem at the index of its 4 KiB page inside the heap.  size_t and *)
(* uint64_t values stay far below 2^31 in every run explored here, except  *)
(* bytes_allocated after an underflow: a negative value v stands for the   *)
(* size_t value v + 2^64.                                                  *)
(***************************************************************************)
EXTENDS Integers, Sequences, FiniteSets, TLC

VARIABLES
    heap_size,        \* buddy.c: static size_t heap_size
    free_lists,       \* buddy.c: free_lists[BUDDY_MAX_LEVELS], head pointers
    mem,              \* block headers in heap memory, by page index
    bytes_allocated,  \* buddy.c: static size_t bytes_allocated
    live,             \* history: allocations returned and not yet freed
    last_op,          \* history: the last allocator call, its argument and
                      \* result; dup: the result was already outstanding
    tasks,            \* the task control blocks (struct task), by address
    task_list,        \* scheduler.c: head of the circular task list
    current_task,     \* scheduler.c: struct task* current_task
    next_pid,         \* scheduler.c: static uint32_t next_pid
    sched_lock,       \* scheduler.c: static volatile int sched_lock
    pit_ticks,        \* timer.c: pit_ticks, read by get_timer_ticks()
    sched_op,         \* history: the last scheduler event and the rsp returned
    pc,               \* per task, where its code stands: running, inside
                      \* sleep() after one of its statements, or after exit()
    slept,            \* history: per task, t + M of its last sleep(M) called
                      \* at tick t, and whether it still waits to be selected
    stack_mem,        \* the word at stack_base[0] of every task stack
    panicked,         \* kernel.c: kernel_panic was entered (it never returns)
    perm_table,       \* permissions.c: task_perms_table[MAX_TASKS]
    perm_timestamp,   \* permissions.c: static uint64_t perm_timestamp
    perm_op,          \* history: the last permission call, the task that
                      \* made it, its arguments and its result
    task_queues,      \* messages.c: task_queues[MAX_TASKS], queue pointers
    queues,           \* the struct msg_queue objects in heap memory, by address
    system_ticks,     \* messages.c: static uint64_t system_ticks
    msg_op,           \* history: the last message call, its arguments, its
                      \* result, the message it delivered and the number of
                      \* messages its receiver had queued before it
    msg_sent,         \* history: per receiver, the arguments of the accepted
                      \* sends not yet received or cleared, oldest first
    msg_last,         \* history: per receiver, the timestamp of the message
                      \* it received last
    irq_handlers,     \* handlers.c: static irq_handler_t irq_handlers[16]
    timer_ticks,      \* handlers.c: static volatile uint64_t timer_ticks
    irq_op,           \* history: the last call into handlers.c, and for a
                      \* dispatch the handler calls and port writes it made
    sblocks,          \* the struct sblock headers in heap memory, by address
    sblock_op,        \* history: the last signed-block call and its result
    sys_op,           \* history: the last system call, its frame and rax
    switch_call,      \* the scheduler_switch call in progress: how far it
                      \* got, its rsp argument, and the last call that
                      \* started while it was in progress
    panic_st,         \* kernel_panic: where the CPU is and how many soft
                      \* recoveries were attempted
    msg_run,          \* one queue and the msg_send and msg_receive calls in
                      \* progress on it, statement by statement
    kbd,              \* keyboard.c: kbd_buffer, kbd_read_pos, kbd_write_pos,
                      \* the keyboard_getchar call in progress, and the
                      \* history of characters accepted and delivered
    module_list,      \* module.c: the registered modules, head first
    mod_op            \* history: the last call into module.c and, for
                      \* modules_init, the loads it made

bvars == <<heap_size, free_lists, mem, bytes_allocated, live, last_op>>
svars == <<tasks, task_list, current_task, next_pid, sched_lock, pit_ticks,
           sched_op, pc, slept, stack_mem, panicked>>
pvars == <<perm_table, perm_timestamp, perm_op>>
mvars == <<task_queues, queues, system_ticks, msg_op, msg_sent, msg_last>>
kvars == <<irq_handlers, timer_ticks, irq_op, sblocks, sblock_op, sys_op>>
qvars == <<switch_call, panic_st, msg_run, kbd, module_list, mod_op>>
xvars == <<irq_handlers, timer_ticks, irq_op, sblocks, sblock_op, sys_op,
           switch_call, panic_st, msg_run, kbd, module_list, mod_op>>
ovars == <<perm_table, perm_timestamp, perm_op,
           task_queues, queues, system_ticks, msg_op, msg_sent, msg_last,
           irq_handlers, timer_ticks, irq_op, sblocks, sblock_op, sys_op,
           switch_call, panic_st, msg_run, kbd, module_list, mod_op>>
vars == <<heap_size, free_lists, mem, bytes_allocated, live, last_op,
          tasks, task_list, current_task, next_pid, sched_lock, pit_ticks,
          sched_op, pc, slept, stack_mem, panicked,
          perm_table, perm_timestamp, perm_op,
          task_queues, queues, system_ticks, msg_op, msg_sent, msg_last,
          irq_handlers, timer_ticks, irq_op, sblocks, sblock_op, sys_op,
          switch_call, panic_st, msg_run, kbd, module_list, mod_op>>

(* ------------------------------ bounds -------------------------------- *)
\* The heaps explored are 4096 << k bytes for k in MinRootLevel..MaxRootLevel.
MinRootLevel == 1
MaxRootLevel == 2
\* At most MaxLive allocations are outstanding at a time.
MaxLive == 3
\* The scheduler runs stop at tick MaxTicks; sleep(ms) is called with ms in
\* 0..MaxSleep; the wake-up runs (three fixed tasks) stop at tick WakeTicks.
MaxTicks == 6
MaxSleep == 2
WakeTicks == 26
\* In the wake-up runs sleep() is called before tick WakeSleepBy only; the
\* ticks after it show how long the sleepers wait.
WakeSleepBy == 10
\* The slack (in ticks) allowed on top of one quantum in the wake-up bound.
Epsilon == 1
\* The CPU-time runs (three fixed tasks that never block) stop at FairTicks.
FairTicks == 60
\* Permission calls name the task ids 0 .. MaxPermId (and one id out of
\* range); a run makes at most MaxPermCalls of them.
MaxPermId == 2
MaxPermCalls == 3
\* Message calls name the task ids 0 .. MaxMsgId (and one id out of range);
\* a run makes at most MaxMsgCalls of them.
MaxMsgId == 3
MaxMsgCalls == 3

(* --------------------------- buddy.c constants ------------------------ *)
NULL == 0
BUDDY_MIN_SIZE == 4096
BUDDY_MAX_LEVELS == 8
HEADER_SIZE == 24            \* sizeof(struct buddy_block): 8 + 4 + 4 + 8
BLOCK_MAGIC == "0xB0DD1C0FFE"
NO_MAGIC == "unwritten"      \* memory no header was ever written to
HeapStart == 2101248         \* heap_start: a page-aligned address (0x201000)

Levels == 0 .. (BUDDY_MAX_LEVELS - 1)

RECURSIVE Pow2(_)
Pow2(k) == IF k = 0 THEN 1 ELSE 2 * Pow2(k - 1)

\* a ^ b on non-negative integers, bit by bit
RECURSIVE Xor(_, _)
Xor(a, b) ==
    IF a = 0 THEN b
    ELSE IF b = 0 THEN a
    ELSE ((((a % 2) + (b % 2)) % 2) + (2 * Xor(a \div 2, b \div 2)))

level_to_size(level) == BUDDY_MIN_SIZE * Pow2(level)

\* the loop of size_to_level, from (block_size, level)
RECURSIVE size_to_level_loop(_, _, _)
size_to_level_loop(size, block_size, level) ==
    IF block_size < size /\ level < BUDDY_MAX_LEVELS - 1
    THEN size_to_level_loop(size, block_size * 2, level + 1)
    ELSE level

\* mutant: the header is not added to the request
size_to_level_no_header(size) ==
    size_to_level_loop(size, BUDDY_MIN_SIZE, 0)

size_to_level(size) ==
    size_to_level_loop(size + HEADER_SIZE, BUDDY_MIN_SIZE, 0)

(* A heap value: the allocator's mutable state as one record. *)
HeapNow == [free_lists |-> free_lists, mem |-> mem,
            bytes_allocated |-> bytes_allocated, heap_size |-> heap_size]

PageOf(addr) == (addr - HeapStart) \div BUDDY_MIN_SIZE
PagesOf(size) == 0 .. ((size \div BUDDY_MIN_SIZE) - 1)

\* mutant: the XOR is taken on the address, not on the offset in the heap
get_buddy_xor_address(block, level) == Xor(block, level_to_size(level))

get_buddy(block, level) ==
    LET block_size == level_to_size(level)
        offset == block - HeapStart
        buddy_offset == Xor(offset, block_size)
    IN  HeapStart + buddy_offset

Hdr(H, addr) == H.mem[PageOf(addr)]
SetHdr(H, addr, h) == [H EXCEPT !.mem[PageOf(addr)] = h]
SetHead(H, level, addr) == [H EXCEPT !.free_lists[level] = addr]

\* Heap memory the allocator has not written a header to.
Unwritten == [next |-> NULL, level |-> 0, is_free |-> 0, magic |-> NO_MAGIC]

\* mutant: the upper half keeps the level of the block that is split
split_block_upper_level(H, block, level) ==
    IF level = 0 THEN H
    ELSE
      [H EXCEPT
         !.mem[PageOf(block + level_to_size(level - 1))] =
             [next |-> H.free_lists[level - 1], level |-> level,
              is_free |-> 1, magic |-> BLOCK_MAGIC],
         !.mem[PageOf(block)] =
             [@ EXCEPT !.level = level - 1,
                       !.next = block + level_to_size(level - 1)],
         !.free_lists[level - 1] = block]

split_block(H, block, level) ==
    IF level = 0 THEN H
    ELSE
      \* buddy = block + half_size gets level - 1, is_free, magic and
      \* next = free_lists[level - 1]; block gets level - 1 and next = buddy
      \* (the head after buddy was pushed); block ends as the head
      [H EXCEPT
         !.mem[PageOf(block + level_to_size(level - 1))] =
             [next |-> H.free_lists[level - 1], level |-> level - 1,
              is_free |-> 1, magic |-> BLOCK_MAGIC],
         !.mem[PageOf(block)] =
             [@ EXCEPT !.level = level - 1,
                       !.next = block + level_to_size(level - 1)],
         !.free_lists[level - 1] = block]

\* the loop of buddy_init that finds the root level
RECURSIVE max_level_loop(_, _, _)
max_level_loop(size, max_block_size, max_level) ==
    IF max_block_size * 2 <= size /\ max_level < BUDDY_MAX_LEVELS - 1
    THEN max_level_loop(size, max_block_size * 2, max_level + 1)
    ELSE max_level

buddy_init(start, size) ==
    LET max_level == max_level_loop(size, BUDDY_MIN_SIZE, 0)
        initial == [next |-> NULL, level |-> max_level, is_free |-> 1,
                    magic |-> BLOCK_MAGIC]
    IN  [free_lists |-> [l \in Levels |-> IF l = max_level THEN start ELSE NULL],
         mem |-> [p \in PagesOf(size) |->
                     IF p = PageOf(start) THEN initial ELSE Unwritten],
         bytes_allocated |-> 0,
         heap_size |-> size]

\* while (search_level < BUDDY_MAX_LEVELS && !free_lists[search_level])
RECURSIVE search_loop(_, _)
search_loop(H, search_level) ==
    IF search_level < BUDDY_MAX_LEVELS /\ H.free_lists[search_level] = NULL
    THEN search_loop(H, search_level + 1)
    ELSE search_level

\* block = free_lists[level]; free_lists[level] = block->next
pop_head(H, level) ==
    [heap |-> [H EXCEPT !.free_lists[level] =
                            H.mem[PageOf(H.free_lists[level])].next],
     block |-> H.free_lists[level]]

\* while (search_level > level): split, then pop the head of the lower list;
\* s is the heap and the block in hand
RECURSIVE split_loop(_, _, _)
split_loop(s, search_level, level) ==
    IF search_level > level
    THEN split_loop(pop_head(split_block(s.heap, s.block, search_level),
                             search_level - 1),
                    search_level - 1, level)
    ELSE s

\* mutant: bytes_allocated grows by the payload size, not by the block size
mark_allocated_payload(s, level) ==
    [heap |-> [s.heap EXCEPT
                 !.mem[PageOf(s.block)] = [@ EXCEPT !.is_free = 0,
                                                    !.next = NULL],
                 !.bytes_allocated = @ + level_to_size(level) - HEADER_SIZE],
     ptr |-> s.block + HEADER_SIZE]

\* block->is_free = 0; block->next = NULL; bytes_allocated += size of the
\* level; return the payload address
mark_allocated(s, level) ==
    [heap |-> [s.heap EXCEPT
                 !.mem[PageOf(s.block)] = [@ EXCEPT !.is_free = 0,
                                                    !.next = NULL],
                 !.bytes_allocated = @ + level_to_size(level)],
     ptr |-> s.block + HEADER_SIZE]

\* buddy_alloc once a free block was found at search_level
alloc_from(H, search_level, level) ==
    mark_allocated(split_loop(pop_head(H, search_level), search_level, level),
                   level)

\* buddy_alloc(size): the heap afterwards and the pointer returned
buddy_alloc(H, size) ==
    IF size = 0 \/ size > H.heap_size THEN [heap |-> H, ptr |-> NULL]
    ELSE IF search_loop(H, size_to_level(size)) >= BUDDY_MAX_LEVELS
    THEN [heap |-> H, ptr |-> NULL]
    ELSE alloc_from(H, search_loop(H, size_to_level(size)),
                    size_to_level(size))

\* Unlinking the buddy: prev_ptr walks the level's list until it points at
\* the buddy or at NULL.  p is the block whose next field prev_ptr points at.
\* A walk of more steps than the heap has pages is on a cycle that does not
\* hold the buddy: the loop in the code never ends (hang).
RECURSIVE unlink_walk(_, _, _, _)
unlink_walk(H, p, buddy, fuel) ==
    IF fuel = 0 THEN [hang |-> TRUE, heap |-> H]
    ELSE LET nxt == Hdr(H, p).next
         IN  IF nxt = NULL THEN [hang |-> FALSE, heap |-> H]
             ELSE IF nxt = buddy
             THEN [hang |-> FALSE,
                   heap |-> SetHdr(H, p, [Hdr(H, p) EXCEPT
                                             !.next = Hdr(H, buddy).next])]
             ELSE unlink_walk(H, nxt, buddy, fuel - 1)

\* mutant: the buddy stays on its free list when it is merged
unlink_buddy_noop(H, level, buddy) == [hang |-> FALSE, heap |-> H]

unlink_buddy(H, level, buddy) ==
    IF H.free_lists[level] = NULL THEN [hang |-> FALSE, heap |-> H]
    ELSE IF H.free_lists[level] = buddy
    THEN [hang |-> FALSE, heap |-> SetHead(H, level, Hdr(H, buddy).next)]
    ELSE unlink_walk(H, H.free_lists[level], buddy,
                     Cardinality(DOMAIN H.mem) + 1)

\* while (level < BUDDY_MAX_LEVELS - 1) of buddy_free
RECURSIVE coalesce_loop(_, _, _)
coalesce_loop(H, block, level) ==
    IF level < BUDDY_MAX_LEVELS - 1
    THEN
      LET buddy_addr == get_buddy(block, level)
      IN  IF buddy_addr < HeapStart \/ buddy_addr >= HeapStart + H.heap_size
          THEN [hang |-> FALSE, heap |-> H, block |-> block, level |-> level]
          ELSE
            LET buddy == Hdr(H, buddy_addr)
            IN  IF buddy.magic # BLOCK_MAGIC \/ buddy.is_free = 0
                   \/ buddy.level # level
                THEN [hang |-> FALSE, heap |-> H, block |-> block,
                      level |-> level]
                ELSE
                  LET u == unlink_buddy(H, level, buddy_addr)
                      merged == IF buddy_addr < block THEN buddy_addr ELSE block
                      H1 == SetHdr(u.heap, merged,
                                   [Hdr(u.heap, merged) EXCEPT
                                       !.level = level + 1])
                  IN  IF u.hang
                      THEN [hang |-> TRUE, heap |-> H, block |-> block,
                            level |-> level]
                      ELSE coalesce_loop(H1, merged, level + 1)
    ELSE [hang |-> FALSE, heap |-> H, block |-> block, level |-> level]

\* buddy_free(ptr): the heap afterwards; hang when the call never returns
buddy_free(H, ptr) ==
    IF ptr = NULL THEN [hang |-> FALSE, heap |-> H]
    ELSE
      LET block == ptr - HEADER_SIZE
      IN  IF Hdr(H, block).magic # BLOCK_MAGIC THEN [hang |-> FALSE, heap |-> H]
          ELSE IF Hdr(H, block).is_free # 0 THEN [hang |-> FALSE, heap |-> H]
          ELSE
            LET level == Hdr(H, block).level
                H1 == [H EXCEPT !.bytes_allocated = @ - level_to_size(level)]
                c  == coalesce_loop(H1, block, level)
                H2 == SetHdr(c.heap, c.block,
                             [Hdr(c.heap, c.block) EXCEPT
                                 !.is_free = 1,
                                 !.next = c.heap.free_lists[c.level]])
            IN  [hang |-> c.hang, heap |-> SetHead(H2, c.level, c.block)]

\* buddy_stats(&total, &used, &free)
buddy_stats(H) ==
    [total |-> H.heap_size, used |-> H.bytes_allocated,
     free |-> H.heap_size - H.bytes_allocated]

(* ----------------------------- permissions.c -------------------------- *)
MAX_TASKS == 64

PERM_NONE == 0
PERM_MSG_SEND == 16           \* 0x0010
PERM_MSG_RECEIVE == 32        \* 0x0020
PERM_TASK_CREATE == 256       \* 0x0100
PERM_PERM_GRANT == 1024       \* 0x0400
PERM_PERM_REVOKE == 2048      \* 0x0800
PERM_KERNEL_MODE == 4096      \* 0x1000
PERM_ALL == 65535             \* 0xFFFF, the largest uint16_t

\* a & b and a | b on non-negative integers, bit by bit
RECURSIVE BitAnd(_, _)
BitAnd(a, b) ==
    IF a = 0 \/ b = 0 THEN 0
    ELSE ((a % 2) * (b % 2)) + (2 * BitAnd(a \div 2, b \div 2))

BitOr(a, b) == (a + b) - BitAnd(a, b)

\* A uint32_t mask as its two 16-bit halves; mask & perm for a perm below
\* 2^16
Mask32(hi, lo) == [hi |-> hi, lo |-> lo]
Mask32And(mask, perm) == BitAnd(mask.lo, perm)

\* ~a, cut to the 16 bits of a uint16_t
BitNot16(a) == PERM_ALL - a

\* The permission globals as one record.
PermNow == [table |-> perm_table, timestamp |-> perm_timestamp]

\* perm_init()
perm_init ==
    [table |-> [i \in 0 .. (MAX_TASKS - 1) |->
                  IF i = 0
                  THEN [task_id |-> 0, capabilities |-> PERM_ALL,
                        parent_id |-> 0, granted_time |-> 0, active |-> TRUE]
                  ELSE [task_id |-> i, capabilities |-> PERM_NONE,
                        parent_id |-> 0, granted_time |-> 0,
                        active |-> FALSE]],
     timestamp |-> 0]

\* mutant: every active task passes every check
perm_check_any_active(P, task_id, perm) ==
    task_id < MAX_TASKS /\ P.table[task_id].active

\* perm_check(task_id, perm)
perm_check(P, task_id, perm) ==
    IF task_id >= MAX_TASKS THEN FALSE
    ELSE IF ~P.table[task_id].active THEN FALSE
    ELSE IF BitAnd(P.table[task_id].capabilities, PERM_KERNEL_MODE) # 0
    THEN TRUE
    ELSE BitAnd(P.table[task_id].capabilities, perm) = perm

\* perm_get(task_id)
perm_get(P, task_id) ==
    IF task_id >= MAX_TASKS THEN PERM_NONE
    ELSE IF ~P.table[task_id].active THEN PERM_NONE
    ELSE P.table[task_id].capabilities

\* The administrative rights perm_inherit leaves out.
NotInherited ==
    BitOr(PERM_PERM_GRANT, BitOr(PERM_PERM_REVOKE, PERM_KERNEL_MODE))

\* mutant: the child gets every right of the parent
perm_inherit_all(P, child_id, parent_id) ==
    IF child_id >= MAX_TASKS \/ parent_id >= MAX_TASKS THEN P
    ELSE IF ~P.table[parent_id].active THEN P
    ELSE [P EXCEPT !.table[child_id].capabilities =
                       BitOr(@, P.table[parent_id].capabilities)]

\* perm_inherit(child_id, parent_id)
perm_inherit(P, child_id, parent_id) ==
    IF child_id >= MAX_TASKS \/ parent_id >= MAX_TASKS THEN P
    ELSE IF ~P.table[parent_id].active THEN P
    ELSE [P EXCEPT !.table[child_id].capabilities =
                       BitOr(@, BitAnd(P.table[parent_id].capabilities,
                                       BitNot16(NotInherited)))]

\* mutant: an active slot is overwritten
perm_create_task_overwrite(P, task_id, parent_id, initial_perms) ==
    IF task_id >= MAX_TASKS \/ parent_id >= MAX_TASKS
    THEN [perm |-> P, ret |-> -1, panic |-> TRUE]
    ELSE IF ~perm_check(P, parent_id, PERM_TASK_CREATE)
    THEN [perm |-> P, ret |-> -1, panic |-> FALSE]
    ELSE [perm |-> perm_inherit(
                      [table |-> [P.table EXCEPT ![task_id] =
                                     [task_id |-> task_id,
                                      capabilities |-> initial_perms,
                                      parent_id |-> parent_id,
                                      granted_time |-> P.timestamp + 1,
                                      active |-> TRUE]],
                       timestamp |-> P.timestamp + 1],
                      task_id, parent_id),
          ret |-> 0, panic |-> FALSE]

\* perm_create_task(task_id, parent_id, initial_perms): the globals
\* afterwards, the value returned, and whether it ended in kernel_panic
perm_create_task(P, task_id, parent_id, initial_perms) ==
    IF task_id >= MAX_TASKS \/ parent_id >= MAX_TASKS
    THEN [perm |-> P, ret |-> -1, panic |-> TRUE]
    ELSE IF ~perm_check(P, parent_id, PERM_TASK_CREATE)
    THEN [perm |-> P, ret |-> -1, panic |-> FALSE]
    ELSE IF P.table[task_id].active
    THEN [perm |-> P, ret |-> -1, panic |-> FALSE]
    ELSE [perm |-> perm_inherit(
                      [table |-> [P.table EXCEPT ![task_id] =
                                     [task_id |-> task_id,
                                      capabilities |-> initial_perms,
                                      parent_id |-> parent_id,
                                      granted_time |-> P.timestamp + 1,
                                      active |-> TRUE]],
                       timestamp |-> P.timestamp + 1],
                      task_id, parent_id),
          ret |-> 0, panic |-> FALSE]

\* mutant: the kernel's entry can be destroyed like any other
perm_destroy_any(P, task_id) ==
    IF task_id >= MAX_TASKS THEN P
    ELSE [P EXCEPT !.table[task_id].active = FALSE,
                   !.table[task_id].capabilities = PERM_NONE]

\* perm_destroy_task(task_id)
perm_destroy_task(P, task_id) ==
    IF task_id >= MAX_TASKS \/ task_id = 0 THEN P
    ELSE [P EXCEPT !.table[task_id].active = FALSE,
                   !.table[task_id].capabilities = PERM_NONE]

\* perm_grant(granter_id, target_id, perms)
perm_grant(P, granter_id, target_id, perms) ==
    IF granter_id >= MAX_TASKS \/ target_id >= MAX_TASKS
    THEN [perm |-> P, ret |-> -1]
    ELSE IF ~perm_check(P, granter_id, PERM_PERM_GRANT)
    THEN [perm |-> P, ret |-> -1]
    ELSE IF ~P.table[target_id].active
    THEN [perm |-> P, ret |-> -1]
    ELSE [perm |-> [table |-> [P.table EXCEPT
                                  ![target_id].capabilities = BitOr(@, perms),
                                  ![target_id].granted_time = P.timestamp + 1],
                    timestamp |-> P.timestamp + 1],
          ret |-> 0]

\* perm_revoke(revoker_id, target_id, perms)
perm_revoke(P, revoker_id, target_id, perms) ==
    IF revoker_id >= MAX_TASKS \/ target_id >= MAX_TASKS
    THEN [perm |-> P, ret |-> -1]
    ELSE IF ~perm_check(P, revoker_id, PERM_PERM_REVOKE)
    THEN [perm |-> P, ret |-> -1]
    ELSE IF target_id = 0
    THEN [perm |-> P, ret |-> -1]
    ELSE IF ~P.table[target_id].active
    THEN [perm |-> P, ret |-> -1]
    ELSE [perm |-> [table |-> [P.table EXCEPT
                                  ![target_id].capabilities =
                                      BitAnd(@, BitNot16(perms)),
                                  ![target_id].granted_time = P.timestamp + 1],
                    timestamp |-> P.timestamp + 1],
          ret |-> 0]

(* ------------------------------ messages.c ---------------------------- *)
MSG_MAX_SIZE == 256
MSG_QUEUE_SIZE == 64
MSG_TYPE_DATA == 1
MSG_TYPE_SIGNAL == 2
MSG_SIZE == 280              \* sizeof(struct message): 4 * 4 + 256 + 8
MSG_QUEUE_BYTES == 17936     \* sizeof(struct msg_queue): 64 * 280 + 3 * 4,
                             \* rounded up to the alignment of 8

\* The message globals and the queue objects as one record.
MsgNow == [task_queues |-> task_queues, queues |-> queues,
           system_ticks |-> system_ticks]

\* A struct message after memset(0).  data holds the bytes of the buffer up
\* to the last one ever written; the bytes behind them are 0.
ZeroMessage == [sender_id |-> 0, receiver_id |-> 0, type |-> 0, size |-> 0,
                data |-> << >>, timestamp |-> 0]

\* A struct msg_queue after memset(0)
ZeroQueue == [messages |-> [i \in 0 .. (MSG_QUEUE_SIZE - 1) |-> ZeroMessage],
              read_pos |-> 0, write_pos |-> 0, count |-> 0]

\* msg_init()
msg_init == [task_queues |-> [i \in 0 .. (MAX_TASKS - 1) |-> NULL],
             queues |-> << >>, system_ticks |-> 0]

\* byte i (from 1) of a data buffer
ByteAt(buf, i) == IF i <= Len(buf) THEN buf[i] ELSE 0

\* memcpy(buf, data, size): the buffer afterwards
memcpy(buf, data, size) ==
    [i \in 1 .. (IF size > Len(buf) THEN size ELSE Len(buf)) |->
        IF i <= size THEN data[i] ELSE buf[i]]

\* get_queue after the lazy buddy_alloc(sizeof(struct msg_queue)) (a: its
\* result) and the memset
get_queue_alloc(M, task_id, a) ==
    IF a.ptr = NULL
    THEN [heap |-> a.heap, msg |-> M, queue |-> NULL, panic |-> FALSE]
    ELSE [heap |-> a.heap,
          msg |-> [M EXCEPT !.task_queues[task_id] = a.ptr,
                            !.queues = (a.ptr :> ZeroQueue) @@ @],
          queue |-> a.ptr, panic |-> FALSE]

\* get_queue(task_id): the heap and the globals afterwards, the queue
\* returned, and whether it ended in kernel_panic
get_queue(H, M, task_id) ==
    IF task_id >= MAX_TASKS
    THEN [heap |-> H, msg |-> M, queue |-> NULL, panic |-> TRUE]
    ELSE IF M.task_queues[task_id] = NULL
    THEN get_queue_alloc(M, task_id, buddy_alloc(H, MSG_QUEUE_BYTES))
    ELSE [heap |-> H, msg |-> M, queue |-> M.task_queues[task_id],
          panic |-> FALSE]

\* mutant: the queue takes one message more than it has room for
queue_full_late(q) == q.count > MSG_QUEUE_SIZE

\* queue->count >= MSG_QUEUE_SIZE
queue_full(q) == q.count >= MSG_QUEUE_SIZE

\* mutant: the payload is not copied
enqueue_no_copy(q, sender, receiver, type, data, size, ts) ==
    [q EXCEPT !.messages[q.write_pos] =
                  [sender_id |-> sender, receiver_id |-> receiver,
                   type |-> type, size |-> size, data |-> @.data,
                   timestamp |-> ts],
              !.write_pos = (@ + 1) % MSG_QUEUE_SIZE,
              !.count = @ + 1]

\* mutant: write_pos runs past the end of the ring
enqueue_no_wrap(q, sender, receiver, type, data, size, ts) ==
    [q EXCEPT !.messages[q.write_pos % MSG_QUEUE_SIZE] =
                  [sender_id |-> sender, receiver_id |-> receiver,
                   type |-> type, size |-> size,
                   data |-> IF ~data.null /\ size > 0
                            THEN memcpy(@.data, data.bytes, size)
                            ELSE @.data,
                   timestamp |-> ts],
              !.write_pos = @ + 1,
              !.count = @ + 1]

\* the message is written at write_pos; data is [null, bytes]: the pointer
\* passed is NULL, or it points to bytes
enqueue(q, sender, receiver, type, data, size, ts) ==
    [q EXCEPT !.messages[q.write_pos] =
                  [sender_id |-> sender, receiver_id |-> receiver,
                   type |-> type, size |-> size,
                   data |-> IF ~data.null /\ size > 0
                            THEN memcpy(@.data, data.bytes, size)
                            ELSE @.data,
                   timestamp |-> ts],
              !.write_pos = (@ + 1) % MSG_QUEUE_SIZE,
              !.count = @ + 1]

\* msg_send after get_queue (g: its result)
send_enqueue(g, sender, receiver, type, data, size) ==
    IF g.queue = NULL
    THEN [heap |-> g.heap, msg |-> g.msg, ret |-> -1]
    ELSE IF queue_full(g.msg.queues[g.queue])
    THEN [heap |-> g.heap, msg |-> g.msg, ret |-> -1]
    ELSE [heap |-> g.heap,
          msg |-> [g.msg EXCEPT !.queues[g.queue] =
                      enqueue(@, sender, receiver, type, data, size,
                              g.msg.system_ticks)],
          ret |-> 0]

\* system_ticks++
count_send(M) == [M EXCEPT !.system_ticks = @ + 1]

\* msg_send(sender, receiver, type, data, size): the heap and the globals
\* afterwards and the value returned; with receiver 0 it calls itself for
\* every task id from 1 that is not the sender and has a queue
RECURSIVE msg_send(_, _, _, _, _, _, _)
RECURSIVE broadcast_loop(_, _, _, _, _, _, _, _)
RECURSIVE broadcast_next(_, _, _, _, _, _, _)
msg_send(H, M, sender, receiver, type, data, size) ==
    IF size > MSG_MAX_SIZE
    THEN [heap |-> H, msg |-> M, ret |-> -1]
    ELSE IF receiver >= MAX_TASKS /\ receiver # 0
    THEN [heap |-> H, msg |-> M, ret |-> -1]
    ELSE IF receiver = 0
    THEN broadcast_loop(H, count_send(M), 1, 0, sender, type, data, size)
    ELSE send_enqueue(get_queue(H, count_send(M), receiver),
                      sender, receiver, type, data, size)
broadcast_loop(H, M, i, success, sender, type, data, size) ==
    IF i >= MAX_TASKS
    THEN [heap |-> H, msg |-> M, ret |-> IF success > 0 THEN 0 ELSE -1]
    ELSE IF i # sender /\ M.task_queues[i] # NULL
    THEN broadcast_next(msg_send(H, M, sender, i, type, data, size),
                        i, success, sender, type, data, size)
    ELSE broadcast_loop(H, M, i + 1, success, sender, type, data, size)
broadcast_next(r, i, success, sender, type, data, size) ==
    broadcast_loop(r.heap, r.msg, i + 1,
                   IF r.ret = 0 THEN success + 1 ELSE success,
                   sender, type, data, size)

\* mutant: the newest message is taken, not the oldest
dequeue_newest(q) ==
    [queue |-> [q EXCEPT !.write_pos = (@ + MSG_QUEUE_SIZE - 1) % MSG_QUEUE_SIZE,
                         !.count = @ - 1],
     out |-> q.messages[(q.write_pos + MSG_QUEUE_SIZE - 1) % MSG_QUEUE_SIZE]]

\* the message at read_pos is copied out
dequeue(q) ==
    [queue |-> [q EXCEPT !.read_pos = (@ + 1) % MSG_QUEUE_SIZE,
                         !.count = @ - 1],
     out |-> q.messages[q.read_pos]]

\* msg_receive once the queue holds a message (d: the result of dequeue)
receive_copy(g, d) ==
    [heap |-> g.heap,
     msg |-> [g.msg EXCEPT !.queues[g.queue] = d.queue],
     ret |-> 0, out |-> d.out, waits |-> FALSE, panic |-> FALSE]

\* msg_receive after get_queue (g: its result); waits: the queue is empty
\* and the caller stays in the hlt loop
receive_from(g) ==
    IF g.panic
    THEN [heap |-> g.heap, msg |-> g.msg, ret |-> -1, out |-> ZeroMessage,
          waits |-> FALSE, panic |-> TRUE]
    ELSE IF g.queue = NULL
    THEN [heap |-> g.heap, msg |-> g.msg, ret |-> -1, out |-> ZeroMessage,
          waits |-> FALSE, panic |-> FALSE]
    ELSE IF g.msg.queues[g.queue].count = 0
    THEN [heap |-> g.heap, msg |-> g.msg, ret |-> -1, out |-> ZeroMessage,
          waits |-> TRUE, panic |-> FALSE]
    ELSE receive_copy(g, dequeue(g.msg.queues[g.queue]))

\* msg_receive(receiver, msg); has_msg: msg is not NULL
msg_receive(H, M, receiver, has_msg) ==
    IF ~has_msg
    THEN [heap |-> H, msg |-> M, ret |-> -1, out |-> ZeroMessage,
          waits |-> FALSE, panic |-> FALSE]
    ELSE receive_from(get_queue(H, M, receiver))

\* msg_available(receiver)
msg_available(M, receiver) ==
    IF receiver >= MAX_TASKS THEN FALSE
    ELSE IF M.task_queues[receiver] = NULL THEN FALSE
    ELSE M.queues[M.task_queues[receiver]].count > 0

\* msg_count(receiver)
msg_count(M, receiver) ==
    IF receiver >= MAX_TASKS THEN 0
    ELSE IF M.task_queues[receiver] = NULL THEN 0
    ELSE M.queues[M.task_queues[receiver]].count

\* mutant: the positions are reset, the count is kept
msg_clear_positions(M, receiver) ==
    IF receiver >= MAX_TASKS THEN M
    ELSE IF M.task_queues[receiver] = NULL THEN M
    ELSE [M EXCEPT !.queues[M.task_queues[receiver]].read_pos = 0,
                   !.queues[M.task_queues[receiver]].write_pos = 0]

\* msg_clear(receiver)
msg_clear(M, receiver) ==
    IF receiver >= MAX_TASKS THEN M
    ELSE IF M.task_queues[receiver] = NULL THEN M
    ELSE [M EXCEPT !.queues[M.task_queues[receiver]].read_pos = 0,
                   !.queues[M.task_queues[receiver]].write_pos = 0,
                   !.queues[M.task_queues[receiver]].count = 0]

NoMsgCall == [op |-> "none", sender |-> 0, receiver |-> 0, type |-> 0,
              data |-> [null |-> TRUE, bytes |-> << >>], size |-> 0,
              ret |-> 0, out |-> ZeroMessage, had |-> 0, n |-> 0]

(* ----------------------- permission state machine --------------------- *)
\* Task ids used in calls: 0 .. MaxPermId, and MAX_TASKS (out of range).
PermIds == (0 .. MaxPermId) \cup {MAX_TASKS}
\* The tasks that make calls: all but the kernel task 0.
PermCallers == 1 .. MaxPermId
\* Capability masks used in calls.
PermMasks == {BitOr(PERM_PERM_GRANT, PERM_MSG_SEND), PERM_PERM_REVOKE,
              PERM_KERNEL_MODE}

NoPermCall == [op |-> "none", caller |-> 0, target |-> 0, parent |-> 0,
               perms |-> PERM_NONE, ret |-> 0, n |-> 0]

(* ------------------------------ handlers.c ---------------------------- *)
IRQ_LINES == 16
IRQ_BASE == 32
PIC_MASTER_COMMAND == 32
PIC_SLAVE_COMMAND == 160
PIC_EOI == 32

\* What a dispatch does, in order: handler calls and port writes.
CallEvent(h) == [ev |-> "call", h |-> h, port |-> 0, val |-> 0]
outb(H, port, val) ==
    [H EXCEPT !.log = Append(@, [ev |-> "outb", h |-> "", port |-> port,
                                 val |-> val])]

\* irq_install_handler(irq, handler): ASSERT(handler != NULL); a line out of
\* range ends in PANIC
irq_install_handler(H, irq, handler) ==
    IF handler = "NULL" THEN [h |-> H, panic |-> TRUE]
    ELSE IF irq >= 0 /\ irq < IRQ_LINES
    THEN [h |-> [H EXCEPT !.irq_handlers[irq] = handler], panic |-> FALSE]
    ELSE [h |-> H, panic |-> TRUE]

\* irq_uninstall_handler(irq)
irq_uninstall_handler(H, irq) ==
    IF irq >= 0 /\ irq < IRQ_LINES
    THEN [H EXCEPT !.irq_handlers[irq] = "NULL"]
    ELSE H

\* mutant: the master PIC alone is acknowledged
pic_send_eoi_master_only(H, irq) == outb(H, PIC_MASTER_COMMAND, PIC_EOI)

\* pic_send_eoi(irq)
pic_send_eoi(H, irq) ==
    outb(IF irq >= 8 THEN outb(H, PIC_SLAVE_COMMAND, PIC_EOI) ELSE H,
         PIC_MASTER_COMMAND, PIC_EOI)

\* timer_handler(): timer_ticks++
timer_handler(H) ==
    [H EXCEPT !.timer_ticks = @ + 1,
              !.log = Append(@, CallEvent("timer_handler"))]

\* keyboard_handler() (keyboard.c): reads the data port 0x60, writes no port
keyboard_handler(H) ==
    [H EXCEPT !.log = Append(@, CallEvent("keyboard_handler"))]

\* irq_handlers[irq](): timer_handler is the only handler the kernel has
call_handler(H, h) == IF h = "timer_handler" THEN timer_handler(H) ELSE H

\* the body of "if (irq >= 0 && irq < 16)" before the acknowledgement
run_handlers(H, irq) ==
    IF irq = 1 THEN keyboard_handler(H)
    ELSE IF H.irq_handlers[irq] # "NULL"
    THEN call_handler(H, H.irq_handlers[irq])
    ELSE H

\* irq_common_handler(frame) with frame->int_no = int_no
irq_common_handler(H, int_no) ==
    IF int_no - IRQ_BASE >= 0 /\ int_no - IRQ_BASE < IRQ_LINES
    THEN pic_send_eoi(run_handlers(H, int_no - IRQ_BASE), int_no - IRQ_BASE)
    ELSE H

\* irq_init(): the table is cleared, timer_handler is installed for IRQ 0
irq_init ==
    irq_install_handler([irq_handlers |-> [i \in 0 .. (IRQ_LINES - 1) |->
                                              "NULL"],
                         timer_ticks |-> 0, log |-> << >>],
                        0, "timer_handler").h

NoIrqCall == [op |-> "none", arg |-> 0, handler |-> "NULL", log |-> << >>,
              n |-> 0]
(* ------------------------------- sblock.c ----------------------------- *)
SBLOCK_READ == 1
SBLOCK_WRITE == 2
SBLOCK_EXEC == 4
SBLOCK_SHARE == 8
SBLOCK_VALID == 1
SBLOCK_LOCKED == 2
SBLOCK_KERNEL == 4
SBLOCK_MAGIC == "SBLKSIGN"
SBLOCK_NO_MAGIC == "0"
SBLOCK_HEADER_SIZE == 24     \* sizeof(struct sblock): 8 + 4 + 4 + 4 * 1 + 4
SBLOCK_MAX_SIZE == 1048576
REF_COUNT_MAX == 255
UID_KERNEL == 0
UID_ROOT == 1
UID_USER == 2

\* the header sblock_alloc writes after memset(blk, 0, total)
NewSblock(size, owner_uid, perms) ==
    [magic |-> SBLOCK_MAGIC, signature |-> 0, size |-> size,
     owner_uid |-> owner_uid, permissions |-> perms, flags |-> SBLOCK_VALID,
     ref_count |-> 1]

\* sblock_alloc(size, owner_uid, perms): the heap and the block headers
\* afterwards, and the block returned
sblock_alloc(H, S, size, owner_uid, perms) ==
    IF size = 0 \/ size > SBLOCK_MAX_SIZE
    THEN [heap |-> H, sblocks |-> S, ret |-> NULL]
    ELSE LET a == buddy_alloc(H, SBLOCK_HEADER_SIZE + size)
         IN  IF a.ptr = NULL
             THEN [heap |-> a.heap, sblocks |-> S, ret |-> NULL]
             ELSE [heap |-> a.heap,
                   sblocks |-> (a.ptr :> NewSblock(size, owner_uid, perms))
                               @@ S,
                   ret |-> a.ptr]

\* if (blk->ref_count > 0) blk->ref_count--
drop_ref(S, blk) ==
    [S EXCEPT ![blk].ref_count = IF @ > 0 THEN @ - 1 ELSE @]

\* mutant: the block goes back to the allocator on every sblock_free
release_always(H, S, blk) ==
    [heap |-> buddy_free(H, blk).heap,
     sblocks |-> [S EXCEPT ![blk].magic = SBLOCK_NO_MAGIC],
     hang |-> buddy_free(H, blk).hang, released |-> TRUE]

\* if (blk->ref_count == 0) { blk->magic = 0; buddy_free(blk); }
release(H, S, blk) ==
    IF S[blk].ref_count = 0
    THEN [heap |-> buddy_free(H, blk).heap,
          sblocks |-> [S EXCEPT ![blk].magic = SBLOCK_NO_MAGIC],
          hang |-> buddy_free(H, blk).hang, released |-> TRUE]
    ELSE [heap |-> H, sblocks |-> S, hang |-> FALSE, released |-> FALSE]

\* sblock_free(blk): released tells whether buddy_free was called
sblock_free(H, S, blk) ==
    IF blk = NULL \/ S[blk].magic # SBLOCK_MAGIC
    THEN [heap |-> H, sblocks |-> S, hang |-> FALSE, released |-> FALSE]
    ELSE release(H, drop_ref(S, blk), blk)

\* mutant: the reference count is not capped
count_ref_uncapped(S, blk) ==
    [sblocks |-> [S EXCEPT ![blk].ref_count = (@ + 1) % 256], ret |-> 0]

\* if (blk->ref_count < 255) { blk->ref_count++; return 0; } return -1;
count_ref(S, blk) ==
    IF S[blk].ref_count < REF_COUNT_MAX
    THEN [sblocks |-> [S EXCEPT ![blk].ref_count = @ + 1], ret |-> 0]
    ELSE [sblocks |-> S, ret |-> -1]

\* sblock_share(blk, target_uid)
sblock_share(S, blk, target_uid) ==
    IF blk = NULL \/ S[blk].magic # SBLOCK_MAGIC
    THEN [sblocks |-> S, ret |-> -1]
    ELSE IF BitAnd(S[blk].permissions, SBLOCK_SHARE) = 0
    THEN [sblocks |-> S, ret |-> -1]
    ELSE IF BitAnd(S[blk].flags, SBLOCK_KERNEL) # 0 /\ target_uid > UID_ROOT
    THEN [sblocks |-> S, ret |-> -1]
    ELSE count_ref(S, blk)

\* blk->data
sblock_data(blk) == blk + SBLOCK_HEADER_SIZE

\* sblock_access(blk, uid, perm): the data pointer or NULL
sblock_access(S, blk, uid, perm) ==
    IF blk = NULL \/ S[blk].magic # SBLOCK_MAGIC THEN NULL
    ELSE IF BitAnd(S[blk].flags, SBLOCK_VALID) = 0 THEN NULL
    ELSE IF uid = S[blk].owner_uid THEN sblock_data(blk)
    ELSE IF uid = UID_KERNEL THEN sblock_data(blk)
    ELSE IF BitAnd(S[blk].permissions, perm) = 0 THEN NULL
    ELSE IF BitAnd(S[blk].flags, SBLOCK_KERNEL) # 0 /\ uid > UID_ROOT
    THEN NULL
    ELSE sblock_data(blk)

NoSblockCall == [op |-> "none", blk |-> NULL, uid |-> 0, arg |-> 0,
                 ret |-> 0, was |-> 0, n |-> 0, hist |-> << >>]
NoSysCall == [op |-> "none", num |-> 0, a1 |-> 0, a2 |-> 0, a3 |-> 0,
              rax |-> 0, n |-> 0]

(* ----------------------------- keyboard.c ----------------------------- *)
KBD_BUFFER_SIZE == 256

\* keyboard_init(): the positions are 0; kbd_buffer is a zeroed static array.
\* call is the keyboard_getchar call in progress (at: "out", "read" after
\* the wait loop, "advance" after the character was read into c); accepted
\* and delivered are the history: the characters stored by the handler and
\* those returned by keyboard_getchar, oldest first.
keyboard_init ==
    [buffer |-> [i \in 0 .. (KBD_BUFFER_SIZE - 1) |-> 0],
     read_pos |-> 0, write_pos |-> 0,
     call |-> [at |-> "out", c |-> 0],
     accepted |-> << >>, delivered |-> << >>,
     op |-> "init", key |-> 0, n |-> 0]

\* mutant: the character is stored whether or not the ring is full
kbd_enqueue_overwrite(K, c) ==
    IF c = 0 THEN K
    ELSE [K EXCEPT !.buffer[K.write_pos] = c,
                   !.write_pos = (K.write_pos + 1) % KBD_BUFFER_SIZE,
                   !.accepted = Append(@, c)]

\* keyboard_handler() from "if (c)" on, c being the character the scancode
\* maps to (0: none)
kbd_enqueue(K, c) ==
    IF c = 0 THEN K
    ELSE IF (K.write_pos + 1) % KBD_BUFFER_SIZE # K.read_pos
    THEN [K EXCEPT !.buffer[K.write_pos] = c,
                   !.write_pos = (K.write_pos + 1) % KBD_BUFFER_SIZE,
                   !.accepted = Append(@, c)]
    ELSE K

\* keyboard_getchar(): the wait loop is passed when the positions differ
getchar_wait(K) ==
    IF K.read_pos = K.write_pos THEN K
    ELSE [K EXCEPT !.call.at = "read"]

\* char c = kbd_buffer[kbd_read_pos]
getchar_read(K) ==
    [K EXCEPT !.call = [at |-> "advance", c |-> K.buffer[K.read_pos]]]

\* kbd_read_pos = (kbd_read_pos + 1) % KBD_BUFFER_SIZE; return c
getchar_advance(K) ==
    [K EXCEPT !.read_pos = (K.read_pos + 1) % KBD_BUFFER_SIZE,
              !.delivered = Append(@, K.call.c),
              !.call = [at |-> "out", c |-> 0]]

\* the next statement of keyboard_getchar
getchar_step(K) ==
    IF K.call.at = "out" THEN getchar_wait(K)
    ELSE IF K.call.at = "read" THEN getchar_read(K)
    ELSE getchar_advance(K)

\* a whole keyboard_getchar call that no interrupt falls into and that
\* finds a character
keyboard_getchar(K) == getchar_advance(getchar_read(getchar_wait(K)))

(* ------------ messages.c, statement by statement ---------------------- *)
\* msg_run is one receiver's queue q and, per task, its call in progress:
\* at is "out" (no call), or the statement the task executes next; msg is
\* the pointer into the ring that msg_send took from write_pos; id numbers
\* the call.  sent and received are the history: the ids of the sends that
\* returned 0 and of the messages msg_receive returned, in order.
NoCall == [at |-> "out", id |-> 0, msg |-> 0, out |-> 0]
NoMsgRun == [q |-> ZeroQueue,
             calls |-> [p \in 1 .. 3 |-> NoCall],
             sent |-> << >>, received |-> << >>, ids |-> 0, n |-> 0]

\* a task calls msg_send or msg_receive: the call stands at its first
\* statement on the queue
call_begin(R, p, first) ==
    [R EXCEPT !.calls[p] = [at |-> first, id |-> R.ids + 1, msg |-> 0,
                            out |-> 0],
              !.ids = @ + 1]

\* the next statement of msg_send by task p:
\*   if (queue->count >= MSG_QUEUE_SIZE) return -1;
\*   msg = &queue->messages[queue->write_pos];
\*   msg->sender_id = ...; ... memcpy(msg->data, data, size);
\*   queue->write_pos = (queue->write_pos + 1) % MSG_QUEUE_SIZE;
\*   queue->count++; return 0;
\* the message carries the id of its call as its one byte of data
send_step(R, p) ==
    LET c == R.calls[p]
    IN  IF c.at = "check"
        THEN IF queue_full(R.q) THEN [R EXCEPT !.calls[p] = NoCall]
             ELSE [R EXCEPT !.calls[p].at = "slot"]
        ELSE IF c.at = "slot"
        THEN [R EXCEPT !.calls[p].msg = R.q.write_pos,
                       !.calls[p].at = "fill"]
        ELSE IF c.at = "fill"
        THEN [R EXCEPT !.q.messages[c.msg] =
                           [sender_id |-> p, receiver_id |-> 3,
                            type |-> MSG_TYPE_DATA, size |-> 1,
                            data |-> memcpy(@.data, <<c.id>>, 1),
                            timestamp |-> c.id],
                       !.calls[p].at = "advance"]
        ELSE IF c.at = "advance"
        THEN [R EXCEPT !.q.write_pos = (@ + 1) % MSG_QUEUE_SIZE,
                       !.calls[p].at = "count"]
        ELSE [R EXCEPT !.q.count = @ + 1,
                       !.sent = Append(@, c.id),
                       !.calls[p] = NoCall]

\* the next statement of msg_receive by task p; the wait loop is left when
\* count is not 0:
\*   while (queue->count == 0) hlt();
\*   memcpy(msg, &queue->messages[queue->read_pos], sizeof(struct message));
\*   queue->read_pos = (queue->read_pos + 1) % MSG_QUEUE_SIZE;
\*   queue->count--; return 0;
receive_step(R, p) ==
    LET c == R.calls[p]
    IN  IF c.at = "wait"
        THEN IF R.q.count = 0 THEN R
             ELSE [R EXCEPT !.calls[p].at = "copy"]
        ELSE IF c.at = "copy"
        THEN [R EXCEPT !.calls[p].out = ByteAt(R.q.messages[R.q.read_pos].data, 1),
                       !.calls[p].at = "advance"]
        ELSE IF c.at = "advance"
        THEN [R EXCEPT !.q.read_pos = (@ + 1) % MSG_QUEUE_SIZE,
                       !.calls[p].at = "count"]
        ELSE [R EXCEPT !.q.count = @ - 1,
                       !.received = Append(@, c.out),
                       !.calls[p] = NoCall]

(* ------------------------------ module.c ------------------------------ *)
MOD_PRIORITY_CORE == 0
MOD_PRIORITY_DRIVER == 2
MOD_PRIORITY_USER == 5
MOD_STATE_UNLOADED == "UNLOADED"
MOD_STATE_LOADING == "LOADING"
MOD_STATE_LOADED == "LOADED"
MOD_STATE_ERROR == "ERROR"

\* A struct module_info is [name, priority, state, depends, init]: depends
\* is the NULL-terminated list of names, init is [null, ret]: there is no
\* callback, or it returns ret.  module_list is the sequence of the
\* registered modules from the head on.

\* module_find(name): the position of the first module of that name, 0 for
\* NULL
RECURSIVE find_from(_, _, _)
find_from(L, name, i) ==
    IF i > Len(L) THEN 0
    ELSE IF L[i].name = name THEN i
    ELSE find_from(L, name, i + 1)
module_find(L, name) == find_from(L, name, 1)

\* module_register(mod)
module_register(L, mod) ==
    IF mod.name = "" THEN [list |-> L, ret |-> -1]
    ELSE IF module_find(L, mod.name) # 0 THEN [list |-> L, ret |-> -1]
    ELSE [list |-> <<[mod EXCEPT !.state = MOD_STATE_UNLOADED]>> \o L,
          ret |-> 0]

\* the dependency loop of module_load: TRUE when it runs to the end
RECURSIVE depends_loaded(_, _, _)
depends_loaded(L, depends, i) ==
    IF i > Len(depends) THEN TRUE
    ELSE IF module_find(L, depends[i]) = 0 THEN FALSE
    ELSE IF L[module_find(L, depends[i])].state # MOD_STATE_LOADED THEN FALSE
    ELSE depends_loaded(L, depends, i + 1)

\* what a load is remembered by: the module, the list as it was when the
\* module had been set LOADING, whether init was called, the value returned
LoadEvent(L, i, called, ret) ==
    [name |-> L[i].name, list |-> L, called |-> called, ret |-> ret]

\* mutant: the dependencies are not looked at
module_load_unchecked(L, log, i) ==
    IF L[i].state = MOD_STATE_LOADED
    THEN [list |-> L, log |-> log, ret |-> 0]
    ELSE LET G == [L EXCEPT ![i].state = MOD_STATE_LOADING]
         IN  IF G[i].init.null
             THEN [list |-> [G EXCEPT ![i].state = MOD_STATE_LOADED],
                   log |-> Append(log, LoadEvent(G, i, FALSE, 0)), ret |-> 0]
             ELSE IF G[i].init.ret # 0
             THEN [list |-> [G EXCEPT ![i].state = MOD_STATE_ERROR],
                   log |-> Append(log, LoadEvent(G, i, TRUE, G[i].init.ret)),
                   ret |-> G[i].init.ret]
             ELSE [list |-> [G EXCEPT ![i].state = MOD_STATE_LOADED],
                   log |-> Append(log, LoadEvent(G, i, TRUE, 0)), ret |-> 0]

\* module_load(mod) for the module at position i
module_load(L, log, i) ==
    IF L[i].state = MOD_STATE_LOADED
    THEN [list |-> L, log |-> log, ret |-> 0]
    ELSE LET G == [L EXCEPT ![i].state = MOD_STATE_LOADING]
         IN  IF ~depends_loaded(G, G[i].depends, 1)
             THEN [list |-> [G EXCEPT ![i].state = MOD_STATE_ERROR],
                   log |-> Append(log, LoadEvent(G, i, FALSE, -1)),
                   ret |-> -1]
             ELSE IF G[i].init.null
             THEN [list |-> [G EXCEPT ![i].state = MOD_STATE_LOADED],
                   log |-> Append(log, LoadEvent(G, i, FALSE, 0)), ret |-> 0]
             ELSE IF G[i].init.ret # 0
             THEN [list |-> [G EXCEPT ![i].state = MOD_STATE_ERROR],
                   log |-> Append(log, LoadEvent(G, i, TRUE, G[i].init.ret)),
                   ret |-> G[i].init.ret]
             ELSE [list |-> [G EXCEPT ![i].state = MOD_STATE_LOADED],
                   log |-> Append(log, LoadEvent(G, i, TRUE, 0)), ret |-> 0]

\* module_unregister(name): exit is called and the module unlinked
module_unregister(L, name) ==
    IF module_find(L, name) = 0 THEN [list |-> L, ret |-> -1]
    ELSE [list |-> [j \in 1 .. (Len(L) - 1) |->
                       IF j < module_find(L, name) THEN L[j] ELSE L[j + 1]],
          ret |-> 0]

\* modules_init(): for every priority from CORE to USER, walk the list and
\* load the UNLOADED modules of that priority
RECURSIVE modules_init_walk(_, _, _, _)
modules_init_walk(L, log, prio, i) ==
    IF prio > MOD_PRIORITY_USER THEN [list |-> L, log |-> log]
    ELSE IF i > Len(L) THEN modules_init_walk(L, log, prio + 1, 1)
    ELSE IF L[i].priority = prio /\ L[i].state = MOD_STATE_UNLOADED
    THEN modules_init_walk(module_load(L, log, i).list,
                           module_load(L, log, i).log, prio, i + 1)
    ELSE modules_init_walk(L, log, prio, i + 1)
modules_init(L) == modules_init_walk(L, << >>, MOD_PRIORITY_CORE, 1)

NoModCall == [op |-> "none", name |-> "", ret |-> 0, log |-> << >>, n |-> 0]

(* ------------------------- calls in progress -------------------------- *)
\* no scheduler_switch call is in progress
NoSwitchCall == [at |-> "out", op |-> "none", rsp |-> 0, arg |-> 0,
                 ret |-> 0, n |-> 0]

\* kernel_panic has not been called
NoPanic == [at |-> "run", recoveries |-> 0]

\* kernel_panic(message, file, line): cli, the banner, "Attempting soft
\* recovery...", the busy wait, sti, shell_init() and shell_run().
\* shell_run is a loop without exit, so the call stays in it and the hlt
\* loop behind it is not reached.
kernel_panic(K) == [at |-> "recovery", recoveries |-> K.recoveries + 1]

\* Nothing is in progress: no scheduler_switch call, no panic, no message
\* call, keyboard_init has run, no module is registered.
QuietWith(K, M) ==
    /\ switch_call = NoSwitchCall
    /\ panic_st = NoPanic
    /\ msg_run = M
    /\ kbd = K
    /\ module_list = << >>
    /\ mod_op = NoModCall

Quiet == QuietWith(keyboard_init, NoMsgRun)

\* kernel_main: irq_init(); no system call yet
Interrupts ==
    /\ irq_handlers = irq_init.irq_handlers
    /\ timer_ticks = irq_init.timer_ticks
    /\ irq_op = NoIrqCall
    /\ sys_op = NoSysCall

Devices == Interrupts /\ Quiet

\* no signed block has been allocated
NoSblocks ==
    /\ sblocks = << >>
    /\ sblock_op = NoSblockCall

\* kernel_main: msg_init(), perm_init()
MsgPermTables ==
    /\ perm_table = perm_init.table
    /\ perm_timestamp = perm_init.timestamp
    /\ perm_op = NoPermCall
    /\ task_queues = msg_init.task_queues
    /\ queues = msg_init.queues
    /\ system_ticks = msg_init.system_ticks
    /\ msg_op = NoMsgCall
    /\ msg_sent = [i \in 0 .. (MAX_TASKS - 1) |-> << >>]
    /\ msg_last = [i \in 0 .. (MAX_TASKS - 1) |-> 0]

KernelTables == Devices /\ NoSblocks /\ MsgPermTables

SetPerm(P) ==
    /\ perm_table' = P.table
    /\ perm_timestamp' = P.timestamp

\* perm_create_task(task_id, parent_id, initial_perms), called for parent_id
PermCreate(task_id, parent_id, initial_perms) ==
    /\ ~panicked
    /\ perm_op.n < MaxPermCalls
    /\ \E r \in {perm_create_task(PermNow, task_id, parent_id,
                                  initial_perms)} :
          /\ SetPerm(r.perm)
          /\ panicked' = r.panic
          /\ perm_op' = [op |-> "create", caller |-> parent_id,
                         target |-> task_id, parent |-> parent_id,
                         perms |-> initial_perms, ret |-> r.ret,
                         n |-> perm_op.n + 1]
    /\ UNCHANGED <<bvars, tasks, task_list, current_task, next_pid,
                   sched_lock, pit_ticks, sched_op, pc, slept, stack_mem,
                   mvars, xvars>>

\* perm_destroy_task(task_id), called by task caller
PermDestroy(caller, task_id) ==
    /\ ~panicked
    /\ perm_op.n < MaxPermCalls
    /\ SetPerm(perm_destroy_task(PermNow, task_id))
    /\ perm_op' = [op |-> "destroy", caller |-> caller, target |-> task_id,
                   parent |-> 0, perms |-> PERM_NONE, ret |-> 0,
                   n |-> perm_op.n + 1]
    /\ UNCHANGED <<bvars, svars, mvars, xvars>>

\* perm_grant(granter_id, target_id, perms)
PermGrant(granter_id, target_id, perms) ==
    /\ ~panicked
    /\ perm_op.n < MaxPermCalls
    /\ \E r \in {perm_grant(PermNow, granter_id, target_id, perms)} :
          /\ SetPerm(r.perm)
          /\ perm_op' = [op |-> "grant", caller |-> granter_id,
                         target |-> target_id, parent |-> 0,
                         perms |-> perms, ret |-> r.ret,
                         n |-> perm_op.n + 1]
    /\ UNCHANGED <<bvars, svars, mvars, xvars>>

\* perm_revoke(revoker_id, target_id, perms)
PermRevoke(revoker_id, target_id, perms) ==
    /\ ~panicked
    /\ perm_op.n < MaxPermCalls
    /\ \E r \in {perm_revoke(PermNow, revoker_id, target_id, perms)} :
          /\ SetPerm(r.perm)
          /\ perm_op' = [op |-> "revoke", caller |-> revoker_id,
                         target |-> target_id, parent |-> 0,
                         perms |-> perms, ret |-> r.ret,
                         n |-> perm_op.n + 1]
    /\ UNCHANGED <<bvars, svars, mvars, xvars>>

\* perm_inherit(child_id, parent_id), called by task caller
PermInherit(caller, child_id, parent_id) ==
    /\ ~panicked
    /\ perm_op.n < MaxPermCalls
    /\ SetPerm(perm_inherit(PermNow, child_id, parent_id))
    /\ perm_op' = [op |-> "inherit", caller |-> caller, target |-> child_id,
                   parent |-> parent_id, perms |-> PERM_NONE, ret |-> 0,
                   n |-> perm_op.n + 1]
    /\ UNCHANGED <<bvars, svars, mvars, xvars>>

PermNext ==
    \/ \E t, p \in PermIds : \E m \in PermMasks : PermCreate(t, p, m)
    \/ \E c \in PermCallers : \E t \in PermIds : PermDestroy(c, t)
    \/ \E g, t \in PermIds : \E m \in PermMasks : PermGrant(g, t, m)
    \/ \E r, t \in PermIds : \E m \in PermMasks : PermRevoke(r, t, m)
    \/ \E c \in PermCallers : \E t, p \in PermIds : PermInherit(c, t, p)

(* ----------------------- allocator state machine ---------------------- *)
HeapSizes == {level_to_size(k) : k \in MinRootLevel .. MaxRootLevel}

\* Request sizes: 0, and the smallest and largest payload of every level up
\* to one above the largest root (the last ones can never be satisfied).
AllocSizes ==
    {0, 1} \cup {level_to_size(k) - HEADER_SIZE : k \in 0 .. MaxRootLevel + 1}
           \cup {level_to_size(k) - HEADER_SIZE + 1 : k \in 0 .. MaxRootLevel}

SetHeap(H) ==
    /\ free_lists' = H.free_lists
    /\ mem' = H.mem
    /\ bytes_allocated' = H.bytes_allocated
    /\ heap_size' = H.heap_size

BuddyInit ==
    \E size \in HeapSizes :
        LET H == buddy_init(HeapStart, size)
        IN  /\ heap_size = H.heap_size
            /\ free_lists = H.free_lists
            /\ mem = H.mem
            /\ bytes_allocated = H.bytes_allocated
            /\ live = {}
            /\ last_op = [op |-> "init", arg |-> size, ret |-> NULL, dup |-> FALSE]

Alloc(n) ==
    \E r \in {buddy_alloc(HeapNow, n)} :
        /\ Cardinality(live) < MaxLive
        /\ SetHeap(r.heap)
        /\ live' = IF r.ptr = NULL THEN live
                   ELSE live \cup {[ptr |-> r.ptr,
                                    level |-> Hdr(r.heap, r.ptr - HEADER_SIZE).level]}
        /\ last_op' = [op |-> "alloc", arg |-> n, ret |-> r.ptr,
                       dup |-> r.ptr \in {a.ptr : a \in live}]

Free(p) ==
    \E r \in {buddy_free(HeapNow, p)} :
        /\ ~r.hang
        /\ SetHeap(r.heap)
        /\ live' = {a \in live : a.ptr # p}
        /\ last_op' = [op |-> "free", arg |-> p, ret |-> NULL, dup |-> FALSE]

\* buddy_free called again on the pointer the previous call freed
DoubleFree ==
    /\ last_op.op = "free"
    /\ last_op.arg # NULL
    /\ \E r \in {buddy_free(HeapNow, last_op.arg)} :
           /\ ~r.hang
           /\ SetHeap(r.heap)
           /\ live' = live
           /\ last_op' = [op |-> "double_free", arg |-> last_op.arg,
                          ret |-> NULL, dup |-> FALSE]

BuddyNext ==
    \/ \E n \in AllocSizes : Alloc(n)
    \/ \E p \in {a.ptr : a \in live} \cup {NULL} : Free(p)

\* The allocator on its own: the scheduler is not initialised yet.
NoScheduler ==
    /\ tasks = << >>
    /\ task_list = NULL
    /\ current_task = NULL
    /\ next_pid = 0
    /\ sched_lock = 0
    /\ pit_ticks = 0
    /\ sched_op = [op |-> "none", switched |-> FALSE, prev |-> NULL,
                    ret |-> NULL,
                    path |-> "none", best |-> NULL]
    /\ pc = << >>
    /\ slept = << >>
    /\ stack_mem = << >>
    /\ panicked = FALSE

Init == BuddyInit /\ NoScheduler /\ KernelTables
Next == BuddyNext /\ UNCHANGED <<svars, ovars>>
Spec == Init /\ [][Next]_vars

\* Runs that end with a double free: the calls of Spec, then buddy_free once
\* more on the pointer just freed.  The heap is compared right after that call.
DoubleFreeNext ==
    \/ last_op.op # "double_free" /\ BuddyNext /\ UNCHANGED <<svars, ovars>>
    \/ DoubleFree /\ UNCHANGED <<svars, ovars>>
SpecDoubleFree == Init /\ [][DoubleFreeNext]_vars

\* The heap kernel_main sets up without a memory map: buddy_init(heap_start,
\* 0x80000); its root block is of the top level, BUDDY_MAX_LEVELS - 1.
BootHeapSize == 524288
BootSizes == {1, (BootHeapSize \div 2) - HEADER_SIZE,
              BootHeapSize - HEADER_SIZE, BootHeapSize - HEADER_SIZE + 1,
              BootHeapSize, BootHeapSize + 1}

BootHeapInit ==
    \E H \in {buddy_init(HeapStart, BootHeapSize)} :
        /\ heap_size = H.heap_size
        /\ free_lists = H.free_lists
        /\ mem = H.mem
        /\ bytes_allocated = H.bytes_allocated
        /\ live = {}
        /\ last_op = [op |-> "init", arg |-> BootHeapSize, ret |-> NULL,
                      dup |-> FALSE]
        /\ NoScheduler
        /\ KernelTables

BootHeapNext ==
    \/ \E n \in BootSizes : Alloc(n) /\ UNCHANGED <<svars, ovars>>
    \/ \E p \in {a.ptr : a \in live} \cup {NULL} :
          Free(p) /\ UNCHANGED <<svars, ovars>>

SpecBootHeap == BootHeapInit /\ [][BootHeapNext]_vars

(* ------------------------------ scheduler.c --------------------------- *)
TASK_READY == "READY"
TASK_RUNNING == "RUNNING"
TASK_SLEEPING == "SLEEPING"
TASK_WAITING_MSG == "WAITING_MSG"
TASK_BLOCKED == "BLOCKED"
TASK_TERMINATED == "TERMINATED"

PRIORITY_REALTIME == 0
PRIORITY_SYSTEM == 31
PRIORITY_HIGH == 63
PRIORITY_NORMAL == 127
PRIORITY_IDLE == 255

STACK_MAGIC == "0xDEADCAFEBABEBEEF"
TASK_STACK_SIZE == 4096
TASK_SIZE == 80              \* sizeof(struct task)
FRAME_SIZE == 208            \* the 26 quadwords of the interrupt return frame

quantum_table == <<1, 5, 10, 20, 50, 75, 100, 200>>

get_quantum(priority) == quantum_table[(priority \div 32) + 1]

\* The scheduler's globals and the stacks' canary words as one record.
SchedNow == [tasks |-> tasks, task_list |-> task_list,
             current_task |-> current_task, next_pid |-> next_pid,
             sched_lock |-> sched_lock, stack_mem |-> stack_mem]

\* The scheduler before scheduler_init.
NoTasks == [tasks |-> << >>, task_list |-> NULL, current_task |-> NULL,
            next_pid |-> 0, sched_lock |-> 0, stack_mem |-> << >>]

\* A struct task after memset(t, 0, sizeof(struct task)); state 0 is READY.
ZeroTask == [pid |-> 0, state |-> TASK_READY, priority |-> 0, quantum |-> 0,
             base_quantum |-> 0, sleep_expiry |-> 0, cpu_time |-> 0,
             stack_base |-> NULL, rsp |-> 0, next |-> NULL,
             uid |-> 0, perm_mask |-> Mask32(0, 0)]

\* task_create_full: switch (uid), the default perm_mask
default_perm_mask(uid) ==
    IF uid = UID_KERNEL THEN Mask32(PERM_ALL, PERM_ALL)
    ELSE IF uid = UID_ROOT THEN Mask32(PERM_ALL, PERM_ALL - 1)
    ELSE Mask32(0, PERM_ALL)

\* kernel_main, the idle task, runs on the boot stack: an address below the
\* heap stands for its stack pointer.
BootStackPtr == HeapStart - BUDDY_MIN_SIZE

\* The stack pointer the interrupt stub hands to scheduler_switch when task t
\* is interrupted: the frame lies on t's own stack (one depth per task).
StackPtr(T, t) ==
    IF T[t].stack_base = NULL THEN BootStackPtr
    ELSE T[t].stack_base + TASK_STACK_SIZE - FRAME_SIZE

\* while (tail->next != task_list) tail = tail->next
RECURSIVE find_tail(_, _, _)
find_tail(T, head, tail) ==
    IF T[tail].next # head THEN find_tail(T, head, T[tail].next) ELSE tail

\* list_add(t): the task table and the list head afterwards
list_add(T, head, t) ==
    IF head = NULL
    THEN [tasks |-> [T EXCEPT ![t].next = t], task_list |-> t]
    ELSE [tasks |-> [T EXCEPT ![find_tail(T, head, head)].next = t,
                              ![t].next = head],
          task_list |-> head]

\* scheduler_init once the idle TCB was allocated (a: result of buddy_alloc)
init_idle(a, S) ==
    IF a.ptr = NULL
    THEN [panic |-> TRUE, heap |-> a.heap, sched |-> S]
    ELSE [panic |-> FALSE, heap |-> a.heap,
          sched |->
            [tasks |-> list_add(
                          (a.ptr :> [ZeroTask EXCEPT
                                        !.pid = S.next_pid,
                                        !.state = TASK_RUNNING,
                                        !.priority = PRIORITY_IDLE,
                                        !.uid = UID_KERNEL,
                                        !.perm_mask =
                                            Mask32(PERM_ALL, PERM_ALL),
                                        !.quantum = get_quantum(PRIORITY_IDLE),
                                        !.base_quantum =
                                            get_quantum(PRIORITY_IDLE)])
                          @@ S.tasks,
                          S.task_list, a.ptr).tasks,
             task_list |-> IF S.task_list = NULL THEN a.ptr ELSE S.task_list,
             current_task |-> a.ptr,
             next_pid |-> S.next_pid + 1,
             sched_lock |-> S.sched_lock,
             stack_mem |-> S.stack_mem]]

scheduler_init(H, S) == init_idle(buddy_alloc(H, TASK_SIZE), S)

\* task_create_full once TCB and stack were allocated
create_task(t, stack, S, priority, uid) ==
    [S EXCEPT
       !.tasks = list_add(
                    (t.ptr :> [ZeroTask EXCEPT
                                  !.stack_base = stack.ptr,
                                  !.pid = S.next_pid,
                                  !.state = TASK_READY,
                                  !.uid = uid,
                                  !.priority = priority,
                                  !.perm_mask = default_perm_mask(uid),
                                  !.quantum = get_quantum(priority),
                                  !.base_quantum = get_quantum(priority),
                                  !.rsp = stack.ptr + TASK_STACK_SIZE
                                          - FRAME_SIZE])
                    @@ S.tasks,
                    S.task_list, t.ptr).tasks,
       !.task_list = IF S.task_list = NULL THEN t.ptr ELSE S.task_list,
       !.next_pid = S.next_pid + 1,
       !.stack_mem = (stack.ptr :> STACK_MAGIC) @@ S.stack_mem]

\* task_create_full after buddy_alloc(TASK_STACK_SIZE)
create_stack(t, stack, S, priority, uid) ==
    IF stack.ptr = NULL
    THEN [heap |-> buddy_free(t.heap, t.ptr).heap, sched |-> S, ret |-> NULL,
          stack |-> NULL]
    ELSE [heap |-> stack.heap, sched |-> create_task(t, stack, S, priority,
                                                         uid),
          ret |-> t.ptr, stack |-> stack.ptr]

\* task_create_full after buddy_alloc(sizeof(struct task))
create_tcb(t, H, S, priority, uid) ==
    IF t.ptr = NULL
    THEN [heap |-> H, sched |-> S, ret |-> NULL, stack |-> NULL]
    ELSE create_stack(t, buddy_alloc(t.heap, TASK_STACK_SIZE), S, priority,
                      uid)

\* task_create_full(entry, priority, uid) with entry != NULL
task_create_full(H, S, priority, uid) ==
    create_tcb(buddy_alloc(H, TASK_SIZE), H, S, priority, uid)

\* task_create_priority(entry, priority)
task_create_priority(H, S, priority) ==
    task_create_full(H, S, priority, UID_ROOT)

\* timer.c: timer_tick() and timer_get_ticks()
timer_tick(ticks) == ticks + 1

\* mutant: a sleeper is woken only after its expiry tick has passed
wake_late(T, t, now) ==
    IF T[t].state = TASK_SLEEPING /\ now > T[t].sleep_expiry
    THEN [T EXCEPT ![t].state = TASK_READY, ![t].quantum = T[t].base_quantum]
    ELSE T

\* the scan's first if: wake t when its sleep has expired
wake(T, t, now) ==
    IF T[t].state = TASK_SLEEPING /\ now >= T[t].sleep_expiry
    THEN [T EXCEPT ![t].state = TASK_READY, ![t].quantum = T[t].base_quantum]
    ELSE T

\* mutant: a sleeping task is a candidate too
is_candidate_or_asleep(T, t) ==
    \/ T[t].state = TASK_READY
    \/ T[t].state = TASK_RUNNING
    \/ T[t].state = TASK_SLEEPING

\* mutant: every task that is not asleep is a candidate
is_candidate_not_asleep(T, t) == T[t].state # TASK_SLEEPING

is_candidate(T, t) == T[t].state = TASK_READY \/ T[t].state = TASK_RUNNING

\* mutant: a later task of equal priority replaces best
better_or_equal(T, t, best) ==
    IF is_candidate(T, t) /\ (best = NULL \/ T[t].priority <= T[best].priority)
    THEN t ELSE best

\* the scan's second if: best after looking at t
better(T, t, best) ==
    IF is_candidate(T, t) /\ (best = NULL \/ T[t].priority < T[best].priority)
    THEN t ELSE best

\* do { ... t = t->next; } while (t != current_task->next)
RECURSIVE scan_loop(_, _, _, _, _)
RECURSIVE scan_next(_, _, _, _, _)
scan_loop(T, t, first, now, best) == scan_next(wake(T, t, now), t, first, now, best)
scan_next(T, t, first, now, best) ==
    IF T[t].next # first
    THEN scan_loop(T, T[t].next, first, now, better(T, t, best))
    ELSE [tasks |-> T, best |-> better(T, t, best)]

\* mutant: the running task keeps the CPU as long as it has quantum left
keeps_running_on_quantum(T, cur, best) ==
    T[cur].state = TASK_RUNNING /\ T[cur].quantum > 0

\* the keep-running test after the scan
keeps_running(T, cur, best) ==
    /\ T[cur].state = TASK_RUNNING
    /\ T[cur].quantum > 0
    /\ (best = NULL \/ T[cur].priority <= T[best].priority)

\* if (best != current_task) { demote, promote, reload quantum }
switch_to(T, cur, best) ==
    IF best # cur
    THEN [tasks |-> [T EXCEPT
                       ![cur].state = IF @ = TASK_RUNNING THEN TASK_READY
                                      ELSE @,
                       ![best].state = TASK_RUNNING,
                       ![best].quantum = T[best].base_quantum],
          current_task |-> best, sched_lock |-> 0, ret |-> T[best].rsp,
          panic |-> FALSE, path |-> "switch", best |-> best]
    ELSE [tasks |-> T, current_task |-> cur, sched_lock |-> 0,
          ret |-> T[cur].rsp, panic |-> FALSE, path |-> "switch",
          best |-> best]

\* scheduler_switch after the scan (sc: the tasks and best)
select(sc, cur, rsp) ==
    IF keeps_running(sc.tasks, cur, sc.best)
    THEN [tasks |-> sc.tasks, current_task |-> cur, sched_lock |-> 0,
          ret |-> rsp, panic |-> FALSE, path |-> "keep", best |-> sc.best]
    ELSE switch_to(sc.tasks, cur, IF sc.best = NULL THEN cur ELSE sc.best)

\* mutant: the tick is not charged to the interrupted task
save_uncharged(T, cur, rsp) ==
    [T EXCEPT ![cur].rsp = rsp,
              ![cur].quantum = IF @ > 0 THEN @ - 1 ELSE @]

\* current_task->rsp = rsp; cpu_time++; if (quantum > 0) quantum--
save_and_charge(T, cur, rsp) ==
    [T EXCEPT ![cur].rsp = rsp,
              ![cur].cpu_time = @ + 1,
              ![cur].quantum = IF @ > 0 THEN @ - 1 ELSE @]

\* mutant: the canary is never looked at
canary_unchecked(S) == TRUE

\* the stack canary check passes: the current task has no stack of its own
\* (the idle task) or the word at stack_base[0] is STACK_MAGIC
canary_ok(S) ==
    \/ S.tasks[S.current_task].stack_base = NULL
    \/ S.stack_mem[S.tasks[S.current_task].stack_base] = STACK_MAGIC

\* the canary is broken: sched_lock = 0; PANIC("Stack overflow!").  rsp and
\* cpu_time were stored; kernel_panic does not return, so no rsp is returned.
stack_overflow(S, rsp) ==
    [tasks |-> [S.tasks EXCEPT ![S.current_task].rsp = rsp,
                               ![S.current_task].cpu_time = @ + 1],
     current_task |-> S.current_task, sched_lock |-> 0, ret |-> NULL,
     panic |-> TRUE, path |-> "panic", best |-> NULL]

\* scheduler_switch(rsp) with get_timer_ticks() = now: the tasks,
\* current_task and sched_lock afterwards, the rsp returned, and whether it
\* ended in kernel_panic instead of returning
scheduler_switch(S, now, rsp) ==
    IF S.current_task = NULL \/ S.sched_lock # 0
    THEN [tasks |-> S.tasks, current_task |-> S.current_task,
          sched_lock |-> S.sched_lock, ret |-> rsp, panic |-> FALSE,
          path |-> "return", best |-> NULL]
    ELSE IF ~canary_ok(S) THEN stack_overflow(S, rsp)
    ELSE select(scan_loop(save_and_charge(S.tasks, S.current_task, rsp),
                          S.tasks[S.current_task].next,
                          S.tasks[S.current_task].next, now, NULL),
                S.current_task, rsp)

\* scheduler_switch up to the canary check: sched_lock = 1;
\* current_task->rsp = rsp; current_task->cpu_time++
switch_enter(S, rsp) ==
    [S EXCEPT !.sched_lock = 1,
              !.tasks[S.current_task].rsp = rsp,
              !.tasks[S.current_task].cpu_time = @ + 1]

\* mutant: the panic exit leaves the lock set
panic_exit_locked(S) ==
    [tasks |-> S.tasks, current_task |-> S.current_task, sched_lock |-> 1,
     ret |-> NULL, panic |-> TRUE, path |-> "panic", best |-> NULL]

\* sched_lock = 0; PANIC("Stack overflow!")
panic_exit(S) ==
    [tasks |-> S.tasks, current_task |-> S.current_task, sched_lock |-> 0,
     ret |-> NULL, panic |-> TRUE, path |-> "panic", best |-> NULL]

\* scheduler_switch from the canary check on: the check, quantum--, the
\* scan and the selection
switch_finish(S, now, rsp) ==
    IF ~canary_ok(S) THEN panic_exit(S)
    ELSE select(scan_loop([S.tasks EXCEPT ![S.current_task].quantum =
                               IF @ > 0 THEN @ - 1 ELSE @],
                          S.tasks[S.current_task].next,
                          S.tasks[S.current_task].next, now, NULL),
                S.current_task, rsp)

\* The stub of vector 32 (irq0): timer_tick(), then scheduler_switch with the
\* interrupted stack pointer; yield() enters it with int $32.
irq0(S, ticks) ==
    scheduler_switch(S, timer_tick(ticks),
                     StackPtr(S.tasks, S.current_task))

\* task_set_priority(t, p)
task_set_priority(T, t, p) ==
    IF t # NULL
    THEN [T EXCEPT ![t].priority = p, ![t].base_quantum = get_quantum(p)]
    ELSE T

(* ----------------------- scheduler state machine ---------------------- *)
\* The heap of the scheduler runs: one level above the largest allocator heap.
SchedHeapSize == level_to_size(MaxRootLevel + 1)
SleepTimes == 0 .. MaxSleep
CreatePriorities == {PRIORITY_HIGH, PRIORITY_NORMAL}
SetPriorities == {PRIORITY_REALTIME}

Running == [at |-> "run", ms |-> 0]
NeverSlept == [deadline |-> 0, pending |-> FALSE]

\* The idle task: the first task of the list, pid 0.
IsIdle(t) == tasks[t].pid = 0

\* The result sw of the interrupt stub becomes the state; a task the switch
\* selects no longer waits to be selected.
SwitchedTo(op, sw) ==
    /\ pit_ticks' = timer_tick(pit_ticks)
    /\ tasks' = sw.tasks
    /\ current_task' = sw.current_task
    /\ sched_lock' = sw.sched_lock
    /\ sched_op' = [op |-> op, switched |-> TRUE, prev |-> current_task,
                    ret |-> sw.ret, path |-> sw.path, best |-> sw.best]
    /\ slept' = [x \in DOMAIN slept |->
                    IF x = sw.current_task
                    THEN [slept[x] EXCEPT !.pending = FALSE] ELSE slept[x]]
    /\ panicked' = (panicked \/ sw.panic)

Switched(op, sw) ==
    /\ SwitchedTo(op, sw)
    /\ UNCHANGED <<task_list, next_pid, stack_mem, bvars, ovars>>

\* buddy_init, then scheduler_init (kernel_main)
SchedInit ==
    \E b \in {scheduler_init(buddy_init(HeapStart, SchedHeapSize), NoTasks)} :
        /\ ~b.panic
        /\ heap_size = b.heap.heap_size
        /\ free_lists = b.heap.free_lists
        /\ mem = b.heap.mem
        /\ bytes_allocated = b.heap.bytes_allocated
        /\ live = {[ptr |-> b.sched.current_task, level |-> 0]}
        /\ last_op = [op |-> "alloc", arg |-> TASK_SIZE,
                      ret |-> b.sched.current_task, dup |-> FALSE]
        /\ tasks = b.sched.tasks
        /\ task_list = b.sched.task_list
        /\ current_task = b.sched.current_task
        /\ next_pid = b.sched.next_pid
        /\ sched_lock = b.sched.sched_lock
        /\ pit_ticks = 0
        /\ sched_op = [op |-> "init", switched |-> FALSE, prev |-> NULL,
                       ret |-> NULL,
                    path |-> "none", best |-> NULL]
        /\ pc = [x \in DOMAIN b.sched.tasks |-> Running]
        /\ slept = [x \in DOMAIN b.sched.tasks |-> NeverSlept]
        /\ stack_mem = b.sched.stack_mem
        /\ panicked = FALSE
        /\ KernelTables

\* A timer interrupt (IRQ0) while the current task runs with interrupts on.
Tick(limit) ==
    /\ pit_ticks < limit
    /\ pc[current_task].at # "exited"
    /\ \E sw \in {irq0(SchedNow, pit_ticks)} : Switched("tick", sw)
    /\ UNCHANGED pc

\* yield(): int $32
Yield(limit) ==
    /\ ~panicked
    /\ pit_ticks < limit
    /\ ~IsIdle(current_task)
    /\ pc[current_task].at = "run"
    /\ \E sw \in {irq0(SchedNow, pit_ticks)} : Switched("yield", sw)
    /\ UNCHANGED pc

\* sleep(ms), first statement: current_task->state = TASK_SLEEPING
SleepBegin(ms) ==
    /\ ~panicked
    /\ ~IsIdle(current_task)
    /\ pc[current_task].at = "run"
    /\ tasks' = [tasks EXCEPT ![current_task].state = TASK_SLEEPING]
    /\ pc' = [pc EXCEPT ![current_task] = [at |-> "sleep_1", ms |-> ms]]
    /\ slept' = [slept EXCEPT ![current_task] =
                                  [deadline |-> pit_ticks + ms,
                                   pending |-> TRUE]]
    /\ sched_op' = [op |-> "sleep_call", switched |-> FALSE,
                    prev |-> current_task, ret |-> NULL,
                    path |-> "none", best |-> NULL]
    /\ UNCHANGED <<task_list, current_task, next_pid, sched_lock, pit_ticks,
                   stack_mem, panicked, bvars, ovars>>

\* sleep(ms), second statement: sleep_expiry = get_timer_ticks() + ms
SleepStore ==
    /\ ~panicked
    /\ pc[current_task].at = "sleep_1"
    /\ tasks' = [tasks EXCEPT ![current_task].sleep_expiry =
                                  pit_ticks + pc[current_task].ms]
    /\ pc' = [pc EXCEPT ![current_task].at = "sleep_2"]
    /\ sched_op' = [op |-> "sleep_store", switched |-> FALSE,
                    prev |-> current_task, ret |-> NULL,
                    path |-> "none", best |-> NULL]
    /\ UNCHANGED <<task_list, current_task, next_pid, sched_lock, pit_ticks,
                   slept, stack_mem, panicked, bvars, ovars>>

\* sleep(ms), third statement: yield(); the task resumes after sleep()
SleepYield(limit) ==
    /\ ~panicked
    /\ pit_ticks < limit
    /\ pc[current_task].at = "sleep_2"
    /\ \E sw \in {irq0(SchedNow, pit_ticks)} : Switched("sleep_yield", sw)
    /\ pc' = [pc EXCEPT ![current_task] = Running]

\* exit(): cli(); state = TASK_TERMINATED; yield(); while(1)
Exit(limit) ==
    /\ ~panicked
    /\ pit_ticks < limit
    /\ ~IsIdle(current_task)
    /\ pc[current_task].at = "run"
    /\ \E sw \in {irq0([SchedNow EXCEPT
                          !.tasks[current_task].state = TASK_TERMINATED],
                       pit_ticks)} : Switched("exit", sw)
    /\ pc' = [pc EXCEPT ![current_task] = [at |-> "exited", ms |-> 0]]

\* task_create_priority(entry, priority), called by the running task
TaskCreate(priority) ==
    /\ ~panicked
    /\ pc[current_task].at = "run"
    /\ \E c \in {task_create_priority(HeapNow, SchedNow, priority)} :
        /\ SetHeap(c.heap)
        /\ tasks' = c.sched.tasks
        /\ task_list' = c.sched.task_list
        /\ next_pid' = c.sched.next_pid
        /\ stack_mem' = c.sched.stack_mem
        /\ live' = IF c.ret = NULL THEN live
                   ELSE live \cup {[ptr |-> c.ret, level |-> 0],
                                   [ptr |-> c.stack, level |-> 1]}
        /\ last_op' = [op |-> "alloc", arg |-> TASK_STACK_SIZE,
                       ret |-> c.stack, dup |-> FALSE]
        /\ pc' = IF c.ret = NULL THEN pc ELSE (c.ret :> Running) @@ pc
        /\ slept' = IF c.ret = NULL THEN slept
                    ELSE (c.ret :> NeverSlept) @@ slept
        /\ sched_op' = [op |-> "create", switched |-> FALSE,
                        prev |-> current_task, ret |-> c.ret,
                    path |-> "none", best |-> NULL]
    /\ UNCHANGED <<current_task, sched_lock, pit_ticks, panicked, ovars>>

\* task_set_priority(current_task, p) (the shell's priority command)
SetPriority(p) ==
    /\ ~panicked
    /\ ~IsIdle(current_task)
    /\ pc[current_task].at = "run"
    /\ tasks[current_task].priority # p
    /\ tasks' = task_set_priority(tasks, current_task, p)
    /\ sched_op' = [op |-> "set_priority", switched |-> FALSE,
                    prev |-> current_task, ret |-> NULL,
                    path |-> "none", best |-> NULL]
    /\ UNCHANGED <<task_list, current_task, next_pid, sched_lock, pit_ticks,
                   pc, slept, stack_mem, panicked, bvars, ovars>>

SchedNext ==
    \/ Tick(MaxTicks)
    \/ Yield(MaxTicks)
    \/ \E ms \in SleepTimes : SleepBegin(ms)
    \/ SleepStore
    \/ SleepYield(MaxTicks)
    \/ Exit(MaxTicks)
    \/ \E p \in CreatePriorities : TaskCreate(p)
    \/ \E p \in SetPriorities : SetPriority(p)

SpecSched == SchedInit /\ [][SchedNext]_vars

\* The same calls when no timer interrupt falls inside sleep(): sleep() is
\* called with interrupts disabled, its three statements run in one piece.
SleepAtomicNext ==
    \/ pc[current_task].at = "run" /\ Tick(MaxTicks)
    \/ Yield(MaxTicks)
    \/ \E ms \in SleepTimes : SleepBegin(ms)
    \/ SleepStore
    \/ SleepYield(MaxTicks)
    \/ Exit(MaxTicks)
    \/ \E p \in CreatePriorities : TaskCreate(p)
    \/ \E p \in SetPriorities : SetPriority(p)

SpecSleepAtomic == SchedInit /\ [][SleepAtomicNext]_vars

\* The setting of the wake-up bound: the idle task T0 (255), T1 (127) and
\* T2 (63), created before interrupts are enabled; T1 and T2 run and call
\* sleep(MaxSleep), and a timer interrupt may fall anywhere.
WakeInit ==
    \E b \in {scheduler_init(buddy_init(HeapStart, SchedHeapSize), NoTasks)} :
      \E c1 \in {task_create_priority(b.heap, b.sched, PRIORITY_NORMAL)} :
        \E c2 \in {task_create_priority(c1.heap, c1.sched, PRIORITY_HIGH)} :
          /\ ~b.panic /\ c1.ret # NULL /\ c2.ret # NULL
          /\ heap_size = c2.heap.heap_size
          /\ free_lists = c2.heap.free_lists
          /\ mem = c2.heap.mem
          /\ bytes_allocated = c2.heap.bytes_allocated
          /\ live = {[ptr |-> b.sched.current_task, level |-> 0],
                     [ptr |-> c1.ret, level |-> 0],
                     [ptr |-> c1.stack, level |-> 1],
                     [ptr |-> c2.ret, level |-> 0],
                     [ptr |-> c2.stack, level |-> 1]}
          /\ last_op = [op |-> "alloc", arg |-> TASK_STACK_SIZE,
                        ret |-> c2.stack, dup |-> FALSE]
          /\ tasks = c2.sched.tasks
          /\ task_list = c2.sched.task_list
          /\ current_task = c2.sched.current_task
          /\ next_pid = c2.sched.next_pid
          /\ sched_lock = c2.sched.sched_lock
          /\ pit_ticks = 0
          /\ sched_op = [op |-> "init", switched |-> FALSE, prev |-> NULL,
                         ret |-> NULL,
                    path |-> "none", best |-> NULL]
          /\ pc = [x \in DOMAIN c2.sched.tasks |-> Running]
          /\ slept = [x \in DOMAIN c2.sched.tasks |-> NeverSlept]
          /\ stack_mem = c2.sched.stack_mem
          /\ panicked = FALSE
          /\ KernelTables

WakeNext ==
    \/ Tick(WakeTicks)
    \/ pit_ticks < WakeSleepBy /\ SleepBegin(MaxSleep)
    \/ SleepStore
    \/ SleepYield(WakeTicks)

SpecWake == WakeInit /\ [][WakeNext]_vars

(* --------------------------- round robin ------------------------------ *)
\* The round-robin runs stop at RoundRobinTicks; a task is expected to get
\* the CPU when at least RoundRobinWindow ticks are left, enough for a full
\* round of three tasks with the longest quantum used.
RoundRobinTicks == 32
RoundRobinWindow == 16
RoundRobinHeapSize == level_to_size(MaxRootLevel + 2)

\* The setting of round robin: the idle task (255, current) and T1, T2, T3,
\* created in this order before interrupts are enabled.  Either all three
\* have priority HIGH (quantum 5), or T1 and T2 have priority SYSTEM
\* (quantum 1) and T3 the idle priority.  No task sleeps or exits.
RoundRobinInit ==
    \E p \in {PRIORITY_SYSTEM, PRIORITY_HIGH} :
    \E p3 \in {IF p = PRIORITY_HIGH THEN p ELSE PRIORITY_IDLE} :
    \E b \in {scheduler_init(buddy_init(HeapStart, RoundRobinHeapSize),
                             NoTasks)} :
      \E c1 \in {task_create_priority(b.heap, b.sched, p)} :
        \E c2 \in {task_create_priority(c1.heap, c1.sched, p)} :
          \E c3 \in {task_create_priority(c2.heap, c2.sched, p3)} :
            /\ ~b.panic /\ c1.ret # NULL /\ c2.ret # NULL /\ c3.ret # NULL
            /\ heap_size = c3.heap.heap_size
            /\ free_lists = c3.heap.free_lists
            /\ mem = c3.heap.mem
            /\ bytes_allocated = c3.heap.bytes_allocated
            /\ live = {[ptr |-> b.sched.current_task, level |-> 0],
                       [ptr |-> c1.ret, level |-> 0],
                       [ptr |-> c1.stack, level |-> 1],
                       [ptr |-> c2.ret, level |-> 0],
                       [ptr |-> c2.stack, level |-> 1],
                       [ptr |-> c3.ret, level |-> 0],
                       [ptr |-> c3.stack, level |-> 1]}
            /\ last_op = [op |-> "alloc", arg |-> TASK_STACK_SIZE,
                          ret |-> c3.stack, dup |-> FALSE]
            /\ tasks = c3.sched.tasks
            /\ task_list = c3.sched.task_list
            /\ current_task = c3.sched.current_task
            /\ next_pid = c3.sched.next_pid
            /\ sched_lock = c3.sched.sched_lock
            /\ pit_ticks = 0
            /\ sched_op = [op |-> "init", switched |-> FALSE, prev |-> NULL,
                           ret |-> NULL, path |-> "none", best |-> NULL]
            /\ pc = [x \in DOMAIN c3.sched.tasks |-> Running]
            /\ slept = [x \in DOMAIN c3.sched.tasks |-> NeverSlept]
            /\ stack_mem = c3.sched.stack_mem
            /\ panicked = FALSE
            /\ KernelTables

RoundRobinNext ==
    \/ Tick(RoundRobinTicks)
    \/ Yield(RoundRobinTicks)

\* The PIT keeps interrupting: a timer tick that can happen does happen.
SpecRoundRobin ==
    /\ RoundRobinInit
    /\ [][RoundRobinNext]_vars
    /\ WF_vars(Tick(RoundRobinTicks))

\* The setting of the CPU-time order: T0 (idle, 255, current), T1 (127) and
\* T2 (63) stay runnable for ever; they are interrupted by the timer or yield.
FairNext ==
    \/ Tick(FairTicks)
    \/ Yield(FairTicks)

SpecFair == WakeInit /\ [][FairNext]_vars

\* A write that runs over the bottom of a stack: the word at stack_base[0] of
\* task x no longer holds STACK_MAGIC.
Corrupt(x) ==
    /\ ~panicked
    /\ pc[current_task].at = "run"
    /\ tasks[x].stack_base # NULL
    /\ stack_mem[tasks[x].stack_base] = STACK_MAGIC
    /\ stack_mem' = [stack_mem EXCEPT ![tasks[x].stack_base] = "overwritten"]
    /\ sched_op' = [op |-> "corrupt", switched |-> FALSE,
                    prev |-> current_task, ret |-> NULL,
                    path |-> "none", best |-> NULL]
    /\ UNCHANGED <<tasks, task_list, current_task, next_pid, sched_lock,
                   pit_ticks, pc, slept, panicked, bvars, ovars>>

CanaryNext ==
    \/ Tick(MaxTicks)
    \/ Yield(MaxTicks)
    \/ \E p \in CreatePriorities : TaskCreate(p)
    \/ \E x \in DOMAIN tasks : Corrupt(x)

SpecCanary == SchedInit /\ [][CanaryNext]_vars

\* The permission calls on their own, after perm_init.
SpecPerm == Init /\ [][PermNext]_vars

(* ------------------------ message state machine ---------------------- *)
\* Task ids used in calls: 0 .. MaxMsgId, and MAX_TASKS (out of range).
MsgIds == (0 .. MaxMsgId) \cup {MAX_TASKS}
MsgSenders == 0 .. 1

\* What is sent: "hi" as a signal, "a" as data, no payload at all, and a
\* payload one byte longer than a message holds.
MsgHi == [type |-> MSG_TYPE_SIGNAL, size |-> 2,
          data |-> [null |-> FALSE, bytes |-> <<104, 105>>]]
MsgA == [type |-> MSG_TYPE_DATA, size |-> 1,
         data |-> [null |-> FALSE, bytes |-> <<97>>]]
MsgEmpty == [type |-> MSG_TYPE_DATA, size |-> 0,
             data |-> [null |-> TRUE, bytes |-> << >>]]
MsgTooLong == [type |-> MSG_TYPE_DATA, size |-> MSG_MAX_SIZE + 1,
               data |-> [null |-> FALSE, bytes |-> << >>]]
MsgKinds == {MsgHi, MsgA, MsgEmpty, MsgTooLong}

\* The heap, the message globals and the history as one record.
RunNow == [heap |-> HeapNow, msg |-> MsgNow, sent |-> msg_sent,
           last |-> msg_last]

\* The history after a msg_send call (r: its result): every queue that grew
\* took one copy.
send_record(R, r, sender, k) ==
    [heap |-> r.heap, msg |-> r.msg,
     sent |-> [i \in 0 .. (MAX_TASKS - 1) |->
                  IF msg_count(r.msg, i) = msg_count(R.msg, i) + 1
                  THEN Append(R.sent[i], [sender |-> sender, kind |-> k])
                  ELSE R.sent[i]],
     last |-> R.last, ret |-> r.ret, out |-> ZeroMessage,
     panic |-> FALSE, waits |-> FALSE]

after_send(R, sender, receiver, k) ==
    send_record(R, msg_send(R.heap, R.msg, sender, receiver, k.type, k.data,
                            k.size), sender, k)

\* The history after a msg_receive call (r: its result)
receive_record(R, r, receiver) ==
    [heap |-> r.heap, msg |-> r.msg,
     sent |-> IF r.ret = 0 THEN [R.sent EXCEPT ![receiver] = Tail(@)]
              ELSE R.sent,
     last |-> IF r.ret = 0 THEN [R.last EXCEPT ![receiver] = r.out.timestamp]
              ELSE R.last,
     ret |-> r.ret, out |-> r.out, panic |-> r.panic, waits |-> r.waits]

after_receive(R, receiver, has_msg) ==
    receive_record(R, msg_receive(R.heap, R.msg, receiver, has_msg), receiver)

\* Tasks i .. top have each been sent one message by task 0 and have
\* received it.
RECURSIVE warm_up(_, _, _)
RECURSIVE warm_next(_, _, _)
warm_up(R, i, top) ==
    IF i > top THEN R
    ELSE warm_next(after_receive(after_send(R, 0, i, MsgA), i, TRUE),
                   i, top)
warm_next(R, i, top) ==
    IF R.ret = 0 THEN warm_up(R, i + 1, top) ELSE R

\* Task 0 has sent k more messages to task 1.
RECURSIVE fill_queue(_, _)
RECURSIVE fill_next(_, _)
fill_queue(R, k) ==
    IF k = 0 THEN R
    ELSE fill_next(after_send(R, 0, 1, MsgHi), k)
fill_next(R, k) ==
    IF R.ret = 0 THEN fill_queue(R, k - 1) ELSE R

\* kernel_main and the shell: perm_create_task for the tasks 1 .. top
RECURSIVE create_perms(_, _, _)
create_perms(P, i, top) ==
    IF i > top THEN P
    ELSE create_perms(perm_create_task(P, i, 0,
                          BitOr(PERM_MSG_SEND, PERM_MSG_RECEIVE)).perm,
                      i + 1, top)

SetRun(R) ==
    /\ SetHeap(R.heap)
    /\ task_queues' = R.msg.task_queues
    /\ queues' = R.msg.queues
    /\ system_ticks' = R.msg.system_ticks
    /\ msg_sent' = R.sent
    /\ msg_last' = R.last

\* The variables when the message tables have the history R and the
\* permission table is P.
MsgStart(R, P) ==
    /\ heap_size = R.heap.heap_size
    /\ free_lists = R.heap.free_lists
    /\ mem = R.heap.mem
    /\ bytes_allocated = R.heap.bytes_allocated
    /\ live = {}
    /\ last_op = [op |-> "init", arg |-> R.heap.heap_size, ret |-> NULL,
                  dup |-> FALSE]
    /\ NoScheduler
    /\ perm_table = P.table
    /\ perm_timestamp = P.timestamp
    /\ perm_op = NoPermCall
    /\ task_queues = R.msg.task_queues
    /\ queues = R.msg.queues
    /\ system_ticks = R.msg.system_ticks
    /\ msg_op = NoMsgCall
    /\ msg_sent = R.sent
    /\ msg_last = R.last
    /\ Devices
    /\ NoSblocks

\* The kernel has booted, the tasks 1 .. MaxMsgId are active; either no
\* task has used its queue yet or each has received one message; the queue
\* of task 1 is empty or one message short of full.
MsgInit ==
    \E top \in {0, MaxMsgId}, k \in {0, MSG_QUEUE_SIZE - 1} :
      \E R \in {fill_queue(
                  warm_up([heap |-> buddy_init(HeapStart,
                                       level_to_size(MaxRootLevel + 3)),
                           msg |-> msg_init,
                           sent |-> [i \in 0 .. (MAX_TASKS - 1) |-> << >>],
                           last |-> [i \in 0 .. (MAX_TASKS - 1) |-> 0]],
                          1, top), k)},
         P \in {create_perms(perm_init, 1, MaxMsgId)} :
        MsgStart(R, P)

\* msg_send(sender, receiver, k.type, k.data, k.size), called by sender
MsgSend(sender, receiver, k) ==
    /\ ~panicked
    /\ msg_op.n < MaxMsgCalls
    /\ \E R \in {after_send(RunNow, sender, receiver, k)} :
          /\ SetRun(R)
          /\ msg_op' = [op |-> "send", sender |-> sender,
                        receiver |-> receiver, type |-> k.type,
                        data |-> k.data, size |-> k.size, ret |-> R.ret,
                        out |-> ZeroMessage,
                        had |-> msg_count(MsgNow, receiver),
                        n |-> msg_op.n + 1]
    /\ UNCHANGED <<live, last_op, svars, pvars, xvars>>

\* msg_receive(receiver, msg), called by receiver; with an empty queue the
\* call does not return and the task stays in its hlt loop
MsgReceive(receiver, has_msg) ==
    /\ ~panicked
    /\ msg_op.n < MaxMsgCalls
    /\ \E R \in {after_receive(RunNow, receiver, has_msg)} :
          /\ SetRun(R)
          /\ panicked' = R.panic
          /\ msg_op' = [op |-> IF R.waits THEN "receive_wait" ELSE "receive",
                        sender |-> 0, receiver |-> receiver, type |-> 0,
                        data |-> [null |-> ~has_msg, bytes |-> << >>],
                        size |-> 0, ret |-> R.ret, out |-> R.out,
                        had |-> msg_count(MsgNow, receiver),
                        n |-> msg_op.n + 1]
    /\ UNCHANGED <<live, last_op, tasks, task_list, current_task, next_pid,
                   sched_lock, pit_ticks, sched_op, pc, slept, stack_mem,
                   pvars, xvars>>

\* msg_clear(receiver)
MsgClear(receiver) ==
    /\ ~panicked
    /\ msg_op.n < MaxMsgCalls
    /\ \E M \in {msg_clear(MsgNow, receiver)} :
          /\ task_queues' = M.task_queues
          /\ queues' = M.queues
          /\ system_ticks' = M.system_ticks
    /\ msg_sent' = [i \in 0 .. (MAX_TASKS - 1) |->
                       IF i = receiver THEN << >> ELSE msg_sent[i]]
    /\ msg_op' = [op |-> "clear", sender |-> 0, receiver |-> receiver,
                  type |-> 0, data |-> [null |-> TRUE, bytes |-> << >>],
                  size |-> 0, ret |-> 0, out |-> ZeroMessage,
                  had |-> msg_count(MsgNow, receiver),
                  n |-> msg_op.n + 1]
    /\ UNCHANGED <<bvars, svars, pvars, msg_last, xvars>>

MsgNext ==
    \/ \E sender \in MsgSenders, receiver \in MsgIds, k \in MsgKinds :
          MsgSend(sender, receiver, k)
    \/ \E receiver \in MsgIds, has_msg \in BOOLEAN :
          MsgReceive(receiver, has_msg)
    \/ \E receiver \in MsgIds : MsgClear(receiver)

SpecMsg == MsgInit /\ [][MsgNext]_vars

(* ---------------------- the queue as a bounded FIFO ------------------- *)
\* How many messages task 1 has received from its queue before the calls
\* start: none, or all but one of a queue one short of full, so that
\* read_pos stands at the last slot of the ring.
FifoDrains == {0, MSG_QUEUE_SIZE - 2}

\* Task 0 has sent k more messages to task 1, "a" and "hi" in turn.
RECURSIVE fill_mixed(_, _)
RECURSIVE fill_mixed_next(_, _)
fill_mixed(R, k) ==
    IF k = 0 THEN R
    ELSE fill_mixed_next(after_send(R, 0, 1,
                                    IF k % 2 = 0 THEN MsgA ELSE MsgHi), k)
fill_mixed_next(R, k) ==
    IF R.ret = 0 THEN fill_mixed(R, k - 1) ELSE R

\* Task 1 has received d more messages.
RECURSIVE drain_queue(_, _)
RECURSIVE drain_next(_, _)
drain_queue(R, d) ==
    IF d = 0 THEN R
    ELSE drain_next(after_receive(R, 1, TRUE), d)
drain_next(R, d) ==
    IF R.ret = 0 THEN drain_queue(R, d - 1) ELSE R

\* Every task has received one message; task 1 has then been sent
\* MSG_QUEUE_SIZE - 1 messages, which wraps write_pos, and has received
\* none or all but one of them.
FifoInit ==
    \E d \in FifoDrains :
      \E R \in {drain_queue(
                  fill_mixed(
                    warm_up([heap |-> buddy_init(HeapStart,
                                         level_to_size(MaxRootLevel + 3)),
                             msg |-> msg_init,
                             sent |-> [i \in 0 .. (MAX_TASKS - 1) |-> << >>],
                             last |-> [i \in 0 .. (MAX_TASKS - 1) |-> 0]],
                            1, MaxMsgId),
                    MSG_QUEUE_SIZE - 1), d)},
         P \in {create_perms(perm_init, 1, MaxMsgId)} :
        MsgStart(R, P)

SpecFifo == FifoInit /\ [][MsgNext]_vars

(* ------------------------- allocator properties ----------------------- *)
\* The blocks threaded on a level's free list, walked by next from the head.
RECURSIVE list_nodes(_, _, _)
list_nodes(H, p, fuel) ==
    IF p = NULL \/ fuel = 0 THEN {}
    ELSE {p} \cup list_nodes(H, Hdr(H, p).next, fuel - 1)

FreeList(level) ==
    list_nodes(HeapNow, free_lists[level], Cardinality(DOMAIN mem) + 1)

RootLevel == max_level_loop(heap_size, BUDDY_MIN_SIZE, 0)
MaxPayload == level_to_size(RootLevel) - HEADER_SIZE

\* the bytes [lo, hi) of an outstanding allocation's block, header included
BlockLo(a) == a.ptr - HEADER_SIZE
BlockHi(a) == a.ptr - HEADER_SIZE + level_to_size(a.level)

RECURSIVE SumBlockSizes(_)
SumBlockSizes(S) ==
    IF S = {} THEN 0
    ELSE LET a == CHOOSE x \in S : TRUE
         IN  level_to_size(a.level) + SumBlockSizes(S \ {a})

BuddyOffsetPair(b, c, k) ==
    LET ob == b - HeapStart
        oc == c - HeapStart
        size == level_to_size(k)
    IN  /\ ob % size = 0 /\ oc % size = 0
        /\ ob # oc
        /\ ob \div (2 * size) = oc \div (2 * size)

C4_DoubleFreeIdempotent ==
    [][last_op'.op = "double_free"
         => /\ free_lists' = free_lists
            /\ mem' = mem
            /\ bytes_allocated' = bytes_allocated]_vars

\* C5: once every outstanding allocation has been freed the allocator is as
\* after buddy_init: used = 0, free = total, the free lists hold the root
\* block alone, the largest payload can be allocated, and every request gets
\* the address it gets on a fresh heap.
C5_QuiescentIsFresh ==
    live = {}
    => LET fresh == buddy_init(HeapStart, heap_size)
       IN  /\ buddy_stats(HeapNow).used = 0
           /\ buddy_stats(HeapNow).free = buddy_stats(HeapNow).total
           /\ free_lists = fresh.free_lists
           /\ \A k \in Levels :
                 FreeList(k) = IF k = RootLevel THEN {HeapStart} ELSE {}
           /\ Hdr(HeapNow, HeapStart) = Hdr(fresh, HeapStart)
           /\ buddy_alloc(HeapNow, MaxPayload).ptr = HeapStart + HEADER_SIZE
           /\ \A n \in AllocSizes :
                 buddy_alloc(HeapNow, n).ptr = buddy_alloc(fresh, n).ptr

\* C5 witness: two adjacent minimum blocks were outstanding, and the second
\* one (at X + 4096) was freed last, after the first: everything is free
\* again and the free merged all the way up to the root.
C5_Witness ==
    /\ live = {}
    /\ last_op.op = "free"
    /\ last_op.arg = HeapStart + BUDDY_MIN_SIZE + HEADER_SIZE
    /\ RootLevel >= 2
    /\ mem[1].magic = BLOCK_MAGIC /\ mem[1].level = 0
    /\ mem[2].magic = BLOCK_MAGIC

(* ------------------------- scheduler properties ----------------------- *)
\* C6: whenever scheduler_switch has returned, exactly one task of the ring
\* is RUNNING and that task is current_task (after any sequence of task
\* creation, ticks, yield, sleep(ms) with ms >= 0, and exit).
C6_OneRunning ==
    sched_op.switched
    => /\ tasks[current_task].state = TASK_RUNNING
       /\ \A x \in DOMAIN tasks :
             tasks[x].state = TASK_RUNNING => x = current_task

\* C7: after every return of scheduler_switch no READY (or RUNNING) task has
\* a numerically lower priority than current_task, and the stack pointer
\* returned is current_task's: a lower-priority task never gets the CPU
\* while a higher-priority one is runnable, whatever quantum is left.
C7_StrictPriority ==
    sched_op.switched
    => /\ \A x \in DOMAIN tasks :
             (tasks[x].state = TASK_READY \/ tasks[x].state = TASK_RUNNING)
             => tasks[x].priority >= tasks[current_task].priority
       /\ sched_op.ret = StackPtr(tasks, current_task)

\* C7 witness: a task other than idle that still had quantum left was
\* preempted by a task of higher priority.
C7_Witness ==
    /\ sched_op.switched
    /\ sched_op.prev # current_task
    /\ ~IsIdle(sched_op.prev)
    /\ tasks[sched_op.prev].state = TASK_READY
    /\ tasks[sched_op.prev].quantum > 0
    /\ tasks[sched_op.prev].priority > tasks[current_task].priority
    /\ tasks[current_task].state = TASK_RUNNING

\* C8: a task that called sleep(M) at tick t is not selected by
\* scheduler_switch (is not current_task, not RUNNING, not returned to) at
\* any tick earlier than t + M.
C8_NoEarlySelect ==
    sched_op.switched
    => \A x \in DOMAIN tasks :
          (x = current_task \/ tasks[x].state = TASK_RUNNING
              \/ sched_op.ret = StackPtr(tasks, x))
          => pit_ticks >= slept[x].deadline

\* C9 as stated: T1 (priority 127), waiting to be selected after sleep(M),
\* is selected no later than Q(127) + Epsilon ticks after its sleep_expiry.
C9_BoundedWake ==
    \A x \in DOMAIN tasks :
        (slept[x].pending /\ pc[x].at # "sleep_1"
            /\ tasks[x].priority = PRIORITY_NORMAL)
        => pit_ticks <= tasks[x].sleep_expiry
                        + get_quantum(tasks[x].priority) + Epsilon

\* C9, amended: with T0 (255), T1 (127) and T2 (63), after every return of
\* scheduler_switch at a tick >= the sleep_expiry of a task that waits to be
\* selected after sleep(M), current_task is that task or a task of higher
\* priority: T1 gets the CPU at the first switch at or after its expiry at
\* which T2 is not runnable, and waits for as long as T2 stays runnable.
C9_WakeUnlessPreempted ==
    sched_op.switched
    => \A x \in DOMAIN tasks :
          (slept[x].pending /\ pc[x].at # "sleep_1"
              /\ pit_ticks >= tasks[x].sleep_expiry)
          => tasks[current_task].priority < tasks[x].priority

\* C9 witness: T1's sleep has expired, it was woken (READY) and still waits
\* while T2 runs.
C9_Witness ==
    /\ sched_op.switched
    /\ \E x \in DOMAIN tasks :
          /\ tasks[x].priority = PRIORITY_NORMAL
          /\ slept[x].pending /\ pc[x].at # "sleep_1"
          /\ slept[x].deadline >= 2
          /\ pit_ticks > tasks[x].sleep_expiry
          /\ tasks[x].state = TASK_READY
          /\ tasks[current_task].priority = PRIORITY_HIGH
          /\ tasks[current_task].state = TASK_RUNNING

\* C10: once a task is TERMINATED and the scheduler has switched away from
\* it, no step makes it current_task again or changes its state.
C10_TerminatedStays ==
    [][\A x \in DOMAIN tasks :
          (tasks[x].state = TASK_TERMINATED /\ current_task # x)
          => (tasks'[x].state = TASK_TERMINATED /\ current_task' # x)]_vars

\* C10 witness: a task has exited, and scheduler_switch ran again later, at
\* a timer tick that interrupted another task that is not the idle task.
C10_Witness ==
    /\ sched_op.switched /\ sched_op.op = "tick"
    /\ ~IsIdle(sched_op.prev)
    /\ \E x \in DOMAIN tasks :
          /\ tasks[x].state = TASK_TERMINATED
          /\ pc[x].at = "exited"
          /\ x # sched_op.prev
          /\ x # current_task

\* Task x of the task table T cannot be selected at tick now.
NotRunnable(T, x, now) ==
    \/ T[x].state = TASK_SLEEPING /\ now < T[x].sleep_expiry
    \/ T[x].state = TASK_WAITING_MSG
    \/ T[x].state = TASK_BLOCKED
    \/ T[x].state = TASK_TERMINATED

\* The task table scheduler_switch starts from in a step that calls it as
\* event op: exit() has marked the caller TERMINATED before its yield.
EntryTasks(op) ==
    IF op = "exit"
    THEN [tasks EXCEPT ![current_task].state = TASK_TERMINATED]
    ELSE tasks

\* C11: whenever scheduler_switch is called while every task other than the
\* idle task is SLEEPING with an unexpired sleep_expiry, WAITING_MSG, BLOCKED
\* or TERMINATED, it returns with the idle task as current_task, in state
\* RUNNING.
C11_IdleWhenNoneReady ==
    [][(sched_op'.switched
          /\ \A x \in DOMAIN tasks :
                tasks[x].pid # 0
                => NotRunnable(EntryTasks(sched_op'.op), x, pit_ticks'))
       => (tasks'[current_task'].pid = 0
             /\ tasks'[current_task'].state = TASK_RUNNING)]_vars

\* C11 witness: a task went to sleep while another one had exited; the
\* switch left the sleeper for the idle task.
C11_Witness ==
    /\ sched_op.switched
    /\ ~IsIdle(sched_op.prev)
    /\ tasks[sched_op.prev].state = TASK_SLEEPING
    /\ pit_ticks < tasks[sched_op.prev].sleep_expiry
    /\ \E x \in DOMAIN tasks : tasks[x].state = TASK_TERMINATED
    /\ \A x \in DOMAIN tasks : ~IsIdle(x) => NotRunnable(tasks, x, pit_ticks)
    /\ IsIdle(current_task)
    /\ tasks[current_task].state = TASK_RUNNING

\* C12 as stated: with T0 (255), T1 (127), T2 (63) runnable for ever, after
\* any number of ticks cpu_time(T2) >= cpu_time(T1) >= cpu_time(T0).
C12_CpuTimeOrder ==
    \A x, y \in DOMAIN tasks :
        tasks[x].priority < tasks[y].priority
        => tasks[x].cpu_time >= tasks[y].cpu_time

\* C12, amended: after K >= 1 ticks from boot cpu_time(T0) = 1 (the first
\* tick is charged to the idle task, the initial current task, and it never
\* runs again), cpu_time(T1) = 0 and cpu_time(T2) = K - 1; so
\* cpu_time(T2) >= cpu_time(T1) and cpu_time(T1) >= cpu_time(T0) - 1.
C12_CpuTimeAfterBoot ==
    pit_ticks >= 1
    => \A x \in DOMAIN tasks :
          /\ tasks[x].priority = PRIORITY_IDLE => tasks[x].cpu_time = 1
          /\ tasks[x].priority = PRIORITY_NORMAL => tasks[x].cpu_time = 0
          /\ tasks[x].priority = PRIORITY_HIGH
                => tasks[x].cpu_time = pit_ticks - 1

\* C12 witness: T2 has used up several quanta and still runs.
C12_Witness ==
    /\ sched_op.switched
    /\ tasks[current_task].priority = PRIORITY_HIGH
    /\ tasks[current_task].cpu_time > 3 * get_quantum(PRIORITY_HIGH)
    /\ tasks[current_task].state = TASK_RUNNING
    /\ \E x \in DOMAIN tasks :
          tasks[x].priority = PRIORITY_NORMAL /\ tasks[x].state = TASK_READY

\* The canary word of task x is broken.
Corrupted(x) ==
    /\ tasks[x].stack_base # NULL
    /\ stack_mem[tasks[x].stack_base] # STACK_MAGIC

\* C13 as stated: if the canary word of any task is corrupted, a
\* scheduler_switch call that starts afterwards panics instead of returning.
C13_PanicOnAnyCorruption ==
    (sched_op.switched /\ \E x \in DOMAIN tasks : Corrupted(x))
    => (panicked /\ sched_op.ret = NULL)

\* C13, amended: a scheduler_switch call panics ("Stack overflow!") and
\* returns no rsp exactly when the canary word of the task that is current
\* when the call starts is corrupted; the canary of any other task is not
\* looked at, and the call returns as usual.
C13_PanicOnCurrentCorruption ==
    sched_op.switched
    => /\ Corrupted(sched_op.prev) <=> sched_op.ret = NULL
       /\ sched_op.ret = NULL => (panicked /\ current_task = sched_op.prev)
       /\ panicked => Corrupted(current_task)

\* C13 witness: the canary of a task with a stack of its own was broken
\* while it ran, and the next scheduler_switch ended in kernel_panic.
C13_Witness ==
    /\ sched_op.switched
    /\ sched_op.ret = NULL
    /\ panicked
    /\ ~IsIdle(sched_op.prev)
    /\ Corrupted(sched_op.prev)
    /\ \E x \in DOMAIN tasks : ~IsIdle(x) /\ ~Corrupted(x)

(* ------------------------ permission properties ---------------------- *)
\* Task id is an active entry of the table that holds none of the bits of mask.
ActiveWithout(id, mask) ==
    /\ id < MAX_TASKS
    /\ perm_table[id].active
    /\ BitAnd(perm_table[id].capabilities, mask) = 0

\* The table refuses id the right bit: id is out of range or inactive, or it
\* holds neither bit nor PERM_KERNEL_MODE.
Refused(id, bit) ==
    \/ id >= MAX_TASKS
    \/ ~perm_table[id].active
    \/ ActiveWithout(id, BitOr(bit, PERM_KERNEL_MODE))

\* C19 as stated: when a task that does not hold PERM_PERM_GRANT invokes
\* perm_grant, perm_revoke or perm_destroy_task on another task, the call
\* returns -1 (perm_destroy_task returns nothing) and the whole permission
\* table is unchanged.
C19_NoGrantNoChange ==
    [][(/\ perm_op'.n = perm_op.n + 1
        /\ perm_op'.op \in {"grant", "revoke", "destroy"}
        /\ perm_op'.caller # perm_op'.target
        /\ ActiveWithout(perm_op'.caller, PERM_PERM_GRANT))
       => (/\ perm_table' = perm_table
           /\ perm_op'.op # "destroy" => perm_op'.ret = -1)]_vars

\* C19, amended: perm_grant called by a granter the table refuses
\* PERM_PERM_GRANT, and perm_revoke called by a revoker it refuses
\* PERM_PERM_REVOKE, return -1 and leave the whole permission table and
\* perm_timestamp unchanged.  (perm_revoke does not ask for PERM_PERM_GRANT,
\* PERM_KERNEL_MODE passes every check, and perm_destroy_task and perm_inherit
\* name no caller and are not gated.)
C19_RefusedCallsChangeNothing ==
    [][(/\ perm_op'.n = perm_op.n + 1
        /\ \/ /\ perm_op'.op = "grant"
              /\ Refused(perm_op'.caller, PERM_PERM_GRANT)
           \/ /\ perm_op'.op = "revoke"
              /\ Refused(perm_op'.caller, PERM_PERM_REVOKE))
       => (/\ perm_op'.ret = -1
           /\ perm_table' = perm_table
           /\ perm_timestamp' = perm_timestamp)]_vars

\* C19 witness: an active task that holds PERM_PERM_REVOKE but neither
\* PERM_PERM_GRANT nor PERM_KERNEL_MODE called perm_grant on another active
\* task and got -1.
C19_Witness ==
    /\ perm_op.op = "grant"
    /\ perm_op.ret = -1
    /\ perm_op.caller # perm_op.target
    /\ ActiveWithout(perm_op.caller, BitOr(PERM_PERM_GRANT, PERM_KERNEL_MODE))
    /\ BitAnd(perm_table[perm_op.caller].capabilities, PERM_PERM_REVOKE) # 0
    /\ perm_op.target < MAX_TASKS
    /\ perm_table[perm_op.target].active
    /\ perm_op.target # 0

\* parent's capabilities without PERM_PERM_GRANT, PERM_PERM_REVOKE and
\* PERM_KERNEL_MODE
Inheritable(parent) ==
    BitAnd(perm_table[parent].capabilities, BitNot16(NotInherited))

\* C20 as stated: for every child and parent (ids of table entries),
\* perm_inherit leaves in child's capabilities what was there OR-ed with
\* parent's capabilities without the three administrative bits.
C20_InheritIsMaskedOr ==
    [][(/\ perm_op'.n = perm_op.n + 1
        /\ perm_op'.op = "inherit"
        /\ perm_op'.target < MAX_TASKS
        /\ perm_op'.parent < MAX_TASKS)
       => perm_table'[perm_op'.target].capabilities
            = BitOr(perm_table[perm_op'.target].capabilities,
                    Inheritable(perm_op'.parent))]_vars

\* C20, amended: perm_inherit(child, parent) with both ids below MAX_TASKS and
\* an active parent leaves in child's capabilities what was there OR-ed with
\* parent's capabilities without PERM_PERM_GRANT, PERM_PERM_REVOKE and
\* PERM_KERNEL_MODE, and changes nothing else; with an inactive parent or an
\* id out of range it changes nothing.  In every case each entry holds
\* afterwards exactly those of the three bits it held before.
C20_InheritFromActiveParent ==
    [][(perm_op'.n = perm_op.n + 1 /\ perm_op'.op = "inherit")
       => (/\ perm_timestamp' = perm_timestamp
           /\ \A i \in DOMAIN perm_table :
                 BitAnd(perm_table'[i].capabilities, NotInherited)
                   = BitAnd(perm_table[i].capabilities, NotInherited)
           /\ IF /\ perm_op'.target < MAX_TASKS
                 /\ perm_op'.parent < MAX_TASKS
                 /\ perm_table[perm_op'.parent].active
              THEN perm_table' =
                     [perm_table EXCEPT
                        ![perm_op'.target].capabilities =
                            BitOr(@, Inheritable(perm_op'.parent))]
              ELSE perm_table' = perm_table)]_vars

\* C20 witness: perm_inherit was called for a child that held none of the
\* three bits and an active parent that holds all of them; the child now has
\* the parent's other rights and still none of the three.
C20_Witness ==
    /\ perm_op.op = "inherit"
    /\ perm_op.target < MAX_TASKS
    /\ perm_op.parent < MAX_TASKS
    /\ perm_op.target # perm_op.parent
    /\ perm_table[perm_op.parent].active
    /\ BitAnd(perm_table[perm_op.parent].capabilities, NotInherited)
         = NotInherited
    /\ BitAnd(perm_table[perm_op.target].capabilities, NotInherited) = 0
    /\ BitAnd(perm_table[perm_op.target].capabilities, PERM_MSG_SEND) # 0
    /\ perm_table[perm_op.target].capabilities
         = Inheritable(perm_op.parent)

(* -------------------------- message properties ------------------------ *)
\* The message globals after the step.
MsgThen == [task_queues |-> task_queues', queues |-> queues',
            system_ticks |-> system_ticks']

\* The queue object of task i, or NULL
QueueOf(M, i) ==
    IF M.task_queues[i] = NULL THEN NULL ELSE M.queues[M.task_queues[i]]

\* Message m carries what was sent by `sender` as kind k to receiver r.
Carries(m, sender, r, k) ==
    /\ m.sender_id = sender
    /\ m.receiver_id = r
    /\ m.type = k.type
    /\ m.size = k.size
    /\ k.data.null \/
       \A i \in 1 .. k.size : ByteAt(m.data, i) = k.data.bytes[i]

\* C14: a msg_receive(receiver, out) that returns 0 delivers the oldest
\* message accepted for that receiver and not yet received: its first size
\* data bytes are the bytes sent, its size, type and sender_id are the
\* arguments of that msg_send, and its receiver_id is the receiver.
C14_RoundTrip ==
    [][(msg_op'.op = "receive" /\ msg_op'.ret = 0)
       => /\ msg_sent[msg_op'.receiver] # << >>
          /\ Carries(msg_op'.out, Head(msg_sent[msg_op'.receiver]).sender,
                     msg_op'.receiver,
                     Head(msg_sent[msg_op'.receiver]).kind)]_vars

\* A message sent by task 1 during the run, "hi" of 2 bytes, has been
\* received.
C14_Witness ==
    /\ msg_op.op = "receive"
    /\ msg_op.ret = 0
    /\ msg_op.out.sender_id = 1
    /\ msg_op.out.size = 2
    /\ msg_op.out.data = <<104, 105>>

\* C15: msg_send to a receiver whose queue holds MSG_QUEUE_SIZE messages
\* returns -1 and leaves every queue object, that one included, and the
\* queue table as they were.
C15_FullQueueRefuses ==
    [][(/\ msg_op'.op = "send"
        /\ msg_op'.receiver \in 1 .. (MAX_TASKS - 1)
        /\ msg_count(MsgNow, msg_op'.receiver) = MSG_QUEUE_SIZE)
       => /\ msg_op'.ret = -1
          /\ queues' = queues
          /\ task_queues' = task_queues]_vars

\* A message that fits has been sent to a full queue.
C15_Witness ==
    /\ msg_op.op = "send"
    /\ msg_op.receiver = 1
    /\ msg_op.size <= MSG_MAX_SIZE
    /\ msg_op.had = MSG_QUEUE_SIZE
    /\ msg_op.ret = -1
    /\ msg_count(MsgNow, 1) = MSG_QUEUE_SIZE

\* The tasks a broadcast by `sender` is meant for: every active task but
\* the sender and task 0.
Recipients(sender) ==
    {i \in 1 .. (MAX_TASKS - 1) : i # sender /\ perm_table[i].active}

\* C16: a msg_send with receiver 0 and a size that fits adds exactly one
\* message to the queue of every active task other than the sender and
\* task 0 whose queue is not full, adds none to any other queue, and returns
\* 0 iff at least one task took a copy.
C16_BroadcastReachesActive ==
    [][(/\ msg_op'.op = "send"
        /\ msg_op'.receiver = 0
        /\ msg_op'.size <= MSG_MAX_SIZE)
       => /\ \A i \in Recipients(msg_op'.sender) :
                msg_count(MsgNow, i) < MSG_QUEUE_SIZE
                => msg_count(MsgThen, i) = msg_count(MsgNow, i) + 1
          /\ \A i \in (0 .. (MAX_TASKS - 1)) \ Recipients(msg_op'.sender) :
                msg_count(MsgThen, i) = msg_count(MsgNow, i)
          /\ (msg_op'.ret = 0) <=>
                \E i \in 1 .. (MAX_TASKS - 1) :
                    msg_count(MsgThen, i) = msg_count(MsgNow, i) + 1]_vars

\* C17: the timestamp of a message a receiver takes is not below the
\* timestamp of the message it took before.
C17_TimestampsInOrder ==
    [][(msg_op'.op = "receive" /\ msg_op'.ret = 0)
       => msg_op'.out.timestamp >= msg_last[msg_op'.receiver]]_vars

\* A receiver has taken its second message, at least, one of them a copy of
\* a broadcast.
C17_Witness ==
    /\ msg_op.op = "receive"
    /\ msg_op.ret = 0
    /\ msg_op.out.receiver_id \in 1 .. MaxMsgId
    /\ QueueOf(MsgNow, msg_op.receiver).read_pos >= 2
    /\ msg_op.out.timestamp > 2
    /\ msg_op.out.type = MSG_TYPE_SIGNAL
    /\ msg_op.out.sender_id = 1

C21_KernelKeepsAll ==
    /\ perm_table[0].active
    /\ perm_table[0].capabilities = PERM_ALL

\* A call that names task 0 as the one to lose rights has been made:
\* perm_destroy_task(0), or perm_revoke on task 0 by task 0 itself, which
\* passes the permission check.
C21_Witness ==
    /\ perm_op.n >= 2
    /\ \/ perm_op.op = "destroy" /\ perm_op.target = 0
       \/ perm_op.op = "revoke" /\ perm_op.target = 0 /\ perm_op.caller = 0

(* --------------------- allocator properties, continued ---------------- *)
\* The number of steps the walk of a free list takes.
RECURSIVE list_length(_, _, _)
list_length(H, p, fuel) ==
    IF p = NULL \/ fuel = 0 THEN 0
    ELSE 1 + list_length(H, Hdr(H, p).next, fuel - 1)

\* All free-list entries with their levels.
FreeBlocks ==
    UNION {{[ptr |-> b, level |-> k] : b \in FreeList(k)} : k \in Levels}

\* The address ranges of blocks b (level k) and c (level j) do not meet.
Apart(b, k, c, j) ==
    b + level_to_size(k) <= c \/ c + level_to_size(j) <= b

C28_AllocFits ==
    [][(last_op'.op = "alloc" /\ last_op'.arg > 0
            /\ last_op'.arg <= heap_size)
       => IF last_op'.ret # NULL
          THEN /\ level_to_size(mem'[PageOf(last_op'.ret - HEADER_SIZE)].level)
                     >= last_op'.arg + HEADER_SIZE
               /\ \A k \in Levels :
                     level_to_size(k) >= last_op'.arg + HEADER_SIZE
                     => mem'[PageOf(last_op'.ret - HEADER_SIZE)].level <= k
          ELSE /\ free_lists' = free_lists
               /\ bytes_allocated' = bytes_allocated]_vars

\* C29: in every state, no outstanding block is on a free list, no free list
\* holds a block twice, and the free blocks overlap neither each other nor
\* an outstanding block.
C29_FreeListsDisjoint ==
    /\ \A k \in Levels :
          list_length(HeapNow, free_lists[k], Cardinality(DOMAIN mem) + 1)
              = Cardinality(FreeList(k))
    /\ \A f, g \in FreeBlocks :
          f # g => Apart(f.ptr, f.level, g.ptr, g.level)
    /\ \A f \in FreeBlocks :
          \A a \in live :
             /\ f.ptr # BlockLo(a)
             /\ Apart(f.ptr, f.level, BlockLo(a), a.level)


\* C30: whenever scheduler_switch goes past the keep-running test, the task
\* whose rsp it returns is the best candidate, is RUNNING and has its quantum
\* reloaded to base_quantum, also when the best candidate is the current task.
C30_SwitchPromotesBest ==
    (sched_op.switched /\ sched_op.path = "switch")
    => /\ current_task = sched_op.best
       /\ sched_op.ret = StackPtr(tasks, current_task)
       /\ tasks[current_task].state = TASK_RUNNING
       /\ tasks[current_task].quantum = tasks[current_task].base_quantum

\* C30 for a switch to another task: the part of the statement that the block
\* under "if (best != current_task)" establishes.
C30_OtherTaskPromoted ==
    (sched_op.switched /\ sched_op.path = "switch"
       /\ sched_op.best # sched_op.prev)
    => /\ current_task = sched_op.best
       /\ sched_op.ret = StackPtr(tasks, current_task)
       /\ tasks[current_task].state = TASK_RUNNING
       /\ tasks[current_task].quantum = tasks[current_task].base_quantum

\* The best candidate was the current task itself, past the keep-running test.
C30_SelfBest ==
    /\ sched_op.switched /\ sched_op.path = "switch"
    /\ sched_op.best = sched_op.prev


(* ----------------------- interrupt state machine ---------------------- *)
\* Calls into handlers.c per run.
MaxIrqCalls == 4
\* Vectors delivered: the 16 remapped IRQ vectors and one on either side.
IrqVectors == (IRQ_BASE - 1) .. (IRQ_BASE + IRQ_LINES)
\* Lines a handler is installed on or removed from; IRQ_LINES is out of range.
IrqInstallLines == {0, 2, 8, IRQ_LINES}

\* timer.h: #define get_timer_ticks() timer_get_ticks(), which returns
\* pit_ticks; this is the "now" of scheduler.c
get_timer_ticks == pit_ticks

IrqNow == [irq_handlers |-> irq_handlers, timer_ticks |-> timer_ticks,
           log |-> << >>]

SetIrq(H, op, arg, handler) ==
    /\ irq_handlers' = H.irq_handlers
    /\ timer_ticks' = H.timer_ticks
    /\ irq_op' = [op |-> op, arg |-> arg, handler |-> handler,
                  log |-> H.log, n |-> irq_op.n + 1]

\* an interrupt on vector int_no enters irq_common_handler
IrqDispatch(int_no) ==
    /\ ~panicked
    /\ irq_op.n < MaxIrqCalls
    /\ SetIrq(irq_common_handler(IrqNow, int_no), "dispatch", int_no,
              IF int_no - IRQ_BASE \in 0 .. (IRQ_LINES - 1)
              THEN irq_handlers[int_no - IRQ_BASE] ELSE "NULL")
    /\ UNCHANGED <<bvars, svars, pvars, mvars, sblocks, sblock_op, sys_op, qvars>>

\* irq_install_handler(irq, handler)
IrqInstall(irq, handler) ==
    /\ ~panicked
    /\ irq_op.n < MaxIrqCalls
    /\ \E r \in {irq_install_handler(IrqNow, irq, handler)} :
          /\ SetIrq(r.h, "install", irq, handler)
          /\ panicked' = r.panic
    /\ UNCHANGED <<bvars, tasks, task_list, current_task, next_pid,
                   sched_lock, pit_ticks, sched_op, pc, slept, stack_mem,
                   pvars, mvars, sblocks, sblock_op, sys_op, qvars>>

\* irq_uninstall_handler(irq)
IrqUninstall(irq) ==
    /\ ~panicked
    /\ irq_op.n < MaxIrqCalls
    /\ SetIrq(irq_uninstall_handler(IrqNow, irq), "uninstall", irq, "NULL")
    /\ UNCHANGED <<bvars, svars, pvars, mvars, sblocks, sblock_op, sys_op, qvars>>

IrqNext ==
    \/ \E int_no \in IrqVectors : IrqDispatch(int_no)
    \/ \E irq \in IrqInstallLines, handler \in {"timer_handler", "NULL"} :
          IrqInstall(irq, handler)
    \/ \E irq \in IrqInstallLines : IrqUninstall(irq)

SpecIrq == Init /\ [][IrqNext]_vars

(* ------------------------- interrupt properties ----------------------- *)
\* The IRQ line of the last dispatch, and whether it is one of the 16 lines.
IrqLine == irq_op.arg - IRQ_BASE
Dispatched == irq_op.op = "dispatch" /\ IrqLine \in 0 .. (IRQ_LINES - 1)
\* Positions in the log of the last dispatch of a write of val to port.
Writes(port, val) ==
    {i \in DOMAIN irq_op.log :
        /\ irq_op.log[i].ev = "outb"
        /\ irq_op.log[i].port = port
        /\ irq_op.log[i].val = val}
Calls == {i \in DOMAIN irq_op.log : irq_op.log[i].ev = "call"}

\* C22: every IRQ n in 0..15 dispatched through irq_common_handler, with or
\* without a registered handler, gets exactly one EOI (0x20) written to the
\* master PIC port 0x20, after the handler has run, and an EOI written to the
\* slave port 0xA0 if and only if n >= 8.
C22_EoiOnEveryIrq ==
    Dispatched
    => /\ Cardinality(Writes(PIC_MASTER_COMMAND, PIC_EOI)) = 1
       /\ \A i \in Calls : \A j \in Writes(PIC_MASTER_COMMAND, PIC_EOI) \cup
                                    Writes(PIC_SLAVE_COMMAND, PIC_EOI) : i < j
       /\ Writes(PIC_SLAVE_COMMAND, PIC_EOI) # {} <=> IrqLine >= 8
       /\ Cardinality(Writes(PIC_SLAVE_COMMAND, PIC_EOI)) <= 1

\* C22 witnesses: a slave-side IRQ with a registered handler that ran, and
\* (second conjunct of the history) nothing registered on the line.
C22_Witness ==
    /\ Dispatched
    /\ IrqLine = 8
    /\ irq_op.handler = "timer_handler"
    /\ Calls # {}
    /\ Writes(PIC_SLAVE_COMMAND, PIC_EOI) # {}

\* An IRQ without a registered handler is acknowledged all the same.
C22_UnhandledWitness ==
    /\ Dispatched
    /\ IrqLine = 9
    /\ irq_op.handler = "NULL"
    /\ Calls = {}
    /\ Writes(PIC_MASTER_COMMAND, PIC_EOI) # {}

C23_TimerIrqAdvancesTimerTicks ==
    [][(irq_op'.n # irq_op.n /\ irq_op'.op = "dispatch"
          /\ irq_op'.arg = IRQ_BASE /\ irq_handlers[0] = "timer_handler")
       => /\ timer_ticks' = timer_ticks + 1
          /\ get_timer_ticks' = get_timer_ticks]_vars


(* --------------------- signed block state machine --------------------- *)
\* Calls into sblock.c per run.
MaxSblockCalls == 4
\* Successful shares of the first block before the run starts.
SblockPreShares == {0, 1, REF_COUNT_MAX - 2}
SblockSizes == {0, 1}
SblockOwners == {UID_ROOT, UID_USER}
SblockUids == {UID_KERNEL, UID_ROOT, UID_USER}
SblockPerms == {SBLOCK_READ, BitOr(SBLOCK_READ, SBLOCK_SHARE)}
SblockAccessPerms == {SBLOCK_READ, SBLOCK_WRITE}
SblockFlags == {SBLOCK_KERNEL, SBLOCK_LOCKED}

NoHistory == [shares |-> 0, frees |-> 0, released |-> 0]

\* sblock_share(blk, uid) called k times: the first half of the calls, then
\* the rest on the headers the first half left
RECURSIVE share_times(_, _, _, _)
RECURSIVE share_rest(_, _, _, _)
share_times(S, blk, uid, k) ==
    IF k = 0 THEN S
    ELSE IF k = 1 THEN sblock_share(S, blk, uid).sblocks
    ELSE share_rest(share_times(S, blk, uid, k \div 2), blk, uid,
                    k - (k \div 2))
share_rest(S, blk, uid, k) ==
    IF S[blk].ref_count >= 0 THEN share_times(S, blk, uid, k) ELSE S

\* buddy_init, then one block allocated by sblock_alloc and shared
SblockInit ==
    \E pre \in SblockPreShares :
      \E a \in {sblock_alloc(buddy_init(HeapStart,
                                        level_to_size(MaxRootLevel)),
                             << >>, 1, UID_ROOT,
                             BitOr(SBLOCK_READ, SBLOCK_SHARE))} :
        /\ heap_size = a.heap.heap_size
        /\ free_lists = a.heap.free_lists
        /\ mem = a.heap.mem
        /\ bytes_allocated = a.heap.bytes_allocated
        /\ live = {[ptr |-> a.ret,
                    level |-> Hdr(a.heap, a.ret - HEADER_SIZE).level]}
        /\ last_op = [op |-> "alloc", arg |-> SBLOCK_HEADER_SIZE + 1,
                      ret |-> a.ret, dup |-> FALSE]
        /\ sblocks = share_times(a.sblocks, a.ret, UID_USER, pre)
        /\ sblock_op = [NoSblockCall EXCEPT
                          !.hist = (a.ret :> [NoHistory EXCEPT
                                                !.shares = pre])]
        /\ NoScheduler
        /\ Devices
        /\ MsgPermTables

SblockPtrs == (DOMAIN sblocks) \cup {NULL}

SblockCall(op, blk, uid, arg, ret, hist) ==
    sblock_op' = [op |-> op, blk |-> blk, uid |-> uid, arg |-> arg,
                  ret |-> ret,
                  was |-> IF blk \in DOMAIN sblocks
                          THEN sblocks[blk].ref_count ELSE 0,
                  n |-> sblock_op.n + 1, hist |-> hist]

\* sblock_alloc(size, owner_uid, perms)
SblockAlloc(size, owner_uid, perms) ==
    /\ sblock_op.n < MaxSblockCalls
    /\ \E r \in {sblock_alloc(HeapNow, sblocks, size, owner_uid, perms)} :
          /\ SetHeap(r.heap)
          /\ sblocks' = r.sblocks
          /\ live' = IF r.ret = NULL THEN live
                     ELSE live \cup
                          {[ptr |-> r.ret,
                            level |-> Hdr(r.heap, r.ret - HEADER_SIZE).level]}
          /\ last_op' = [op |-> "alloc", arg |-> SBLOCK_HEADER_SIZE + size,
                         ret |-> r.ret, dup |-> FALSE]
          /\ SblockCall("alloc", r.ret, owner_uid, perms, r.ret,
                        IF r.ret = NULL THEN sblock_op.hist
                        ELSE (r.ret :> NoHistory) @@ sblock_op.hist)
    /\ UNCHANGED <<svars, pvars, mvars, irq_handlers, timer_ticks, irq_op,
                   sys_op, qvars>>

\* sblock_share(blk, target_uid)
SblockShare(blk, target_uid) ==
    /\ sblock_op.n < MaxSblockCalls
    /\ \E r \in {sblock_share(sblocks, blk, target_uid)} :
          /\ sblocks' = r.sblocks
          /\ SblockCall("share", blk, target_uid, 0, r.ret,
                        IF r.ret = 0
                        THEN [sblock_op.hist EXCEPT ![blk].shares = @ + 1]
                        ELSE sblock_op.hist)
    /\ UNCHANGED <<bvars, svars, pvars, mvars, irq_handlers, timer_ticks,
                   irq_op, sys_op, qvars>>

\* sblock_free(blk)
SblockFree(blk) ==
    /\ sblock_op.n < MaxSblockCalls
    /\ \E r \in {sblock_free(HeapNow, sblocks, blk)} :
          /\ ~r.hang
          /\ SetHeap(r.heap)
          /\ sblocks' = r.sblocks
          /\ live' = IF r.released THEN {a \in live : a.ptr # blk} ELSE live
          /\ last_op' = IF r.released
                        THEN [op |-> "free", arg |-> blk, ret |-> NULL,
                              dup |-> FALSE]
                        ELSE last_op
          /\ SblockCall("free", blk, 0, 0, 0,
                        IF blk # NULL /\ sblocks[blk].magic = SBLOCK_MAGIC
                        THEN [sblock_op.hist EXCEPT
                                ![blk].frees = @ + 1,
                                ![blk].released =
                                    IF r.released THEN @ + 1 ELSE @]
                        ELSE sblock_op.hist)
    /\ UNCHANGED <<svars, pvars, mvars, irq_handlers, timer_ticks, irq_op,
                   sys_op, qvars>>

\* the holder of a block sets a flag in its header: blk->flags |= flag
\* (struct sblock is declared in sblock.h; sblock.c itself sets SBLOCK_VALID
\* only)
SblockSetFlag(blk, flag) ==
    /\ sblock_op.n < MaxSblockCalls
    /\ blk # NULL
    /\ sblocks[blk].magic = SBLOCK_MAGIC
    /\ sblocks' = [sblocks EXCEPT ![blk].flags = BitOr(@, flag)]
    /\ SblockCall("flag", blk, 0, flag, 0, sblock_op.hist)
    /\ UNCHANGED <<bvars, svars, pvars, mvars, irq_handlers, timer_ticks,
                   irq_op, sys_op, qvars>>

\* sblock_access(blk, uid, perm)
SblockAccess(blk, uid, perm) ==
    /\ sblock_op.n < MaxSblockCalls
    /\ SblockCall("access", blk, uid, perm,
                  sblock_access(sblocks, blk, uid, perm), sblock_op.hist)
    /\ UNCHANGED <<bvars, svars, pvars, mvars, irq_handlers, timer_ticks,
                   irq_op, sblocks, sys_op, qvars>>

SblockNext ==
    \/ \E size \in SblockSizes, owner_uid \in SblockOwners,
          perms \in SblockPerms : SblockAlloc(size, owner_uid, perms)
    \/ \E blk \in SblockPtrs, target_uid \in SblockUids :
          SblockShare(blk, target_uid)
    \/ \E blk \in SblockPtrs : SblockFree(blk)
    \/ \E blk \in SblockPtrs, flag \in SblockFlags : SblockSetFlag(blk, flag)
    \/ \E blk \in SblockPtrs, uid \in SblockUids,
          perm \in SblockAccessPerms : SblockAccess(blk, uid, perm)

SpecSblock == SblockInit /\ [][SblockNext]_vars

(* ------------------------ signed block properties --------------------- *)
\* The block of the last call is a valid signed block.
ValidSblock(blk) ==
    /\ blk # NULL
    /\ sblocks[blk].magic = SBLOCK_MAGIC
    /\ BitAnd(sblocks[blk].flags, SBLOCK_VALID) # 0
Flagged(blk, flag) == BitAnd(sblocks[blk].flags, flag) # 0

\* C25: for a valid signed block, sblock_access(blk, uid, perm) returns the
\* data pointer if and only if uid is the owner, or uid is KERNEL, or
\* (permissions & perm) is set; and for a block with the KERNEL flag only
\* when moreover uid <= ROOT.  Otherwise it returns NULL.
C25_AccessRule ==
    (sblock_op.op = "access" /\ ValidSblock(sblock_op.blk))
    => LET b == sblocks[sblock_op.blk]
           allowed ==
             /\ \/ sblock_op.uid = b.owner_uid
                \/ sblock_op.uid = UID_KERNEL
                \/ BitAnd(b.permissions, sblock_op.arg) # 0
             /\ Flagged(sblock_op.blk, SBLOCK_KERNEL)
                => sblock_op.uid <= UID_ROOT
       IN  sblock_op.ret = IF allowed THEN sblock_data(sblock_op.blk)
                           ELSE NULL

\* What sblock_access grants: the KERNEL flag restricts the permission path
\* only; the owner and uid KERNEL always get the data.
C25_AccessAsGranted ==
    (sblock_op.op = "access" /\ ValidSblock(sblock_op.blk))
    => LET b == sblocks[sblock_op.blk]
           allowed ==
             \/ sblock_op.uid = b.owner_uid
             \/ sblock_op.uid = UID_KERNEL
             \/ /\ BitAnd(b.permissions, sblock_op.arg) # 0
                /\ Flagged(sblock_op.blk, SBLOCK_KERNEL)
                   => sblock_op.uid <= UID_ROOT
       IN  sblock_op.ret = IF allowed THEN sblock_data(sblock_op.blk)
                           ELSE NULL

\* A block between sblock_alloc and its last sblock_free: valid, counted, not
\* yet given back; afterwards: freed once more than shared, given back once.
Lifecycle(blk) ==
    IF sblocks[blk].magic = SBLOCK_MAGIC
    THEN /\ sblocks[blk].ref_count >= 1
         /\ sblocks[blk].ref_count <= REF_COUNT_MAX
         /\ sblocks[blk].ref_count
              = (1 + sblock_op.hist[blk].shares) - sblock_op.hist[blk].frees
         /\ sblock_op.hist[blk].released = 0
         /\ BitAnd(sblocks[blk].flags, SBLOCK_VALID) # 0
         /\ Hdr(HeapNow, blk - HEADER_SIZE).magic = BLOCK_MAGIC
         /\ Hdr(HeapNow, blk - HEADER_SIZE).is_free = 0
    ELSE /\ sblock_op.hist[blk].frees = sblock_op.hist[blk].shares + 1
         /\ sblock_op.hist[blk].released = 1

\* The share just made was refused, and was to be refused.
RefusedShare ==
    /\ sblock_op'.ret = -1
    /\ sblocks' = sblocks
    /\ sblock_op'.blk # NULL /\ sblocks[sblock_op'.blk].magic = SBLOCK_MAGIC
       => \/ BitAnd(sblocks[sblock_op'.blk].permissions, SBLOCK_SHARE) = 0
          \/ /\ Flagged(sblock_op'.blk, SBLOCK_KERNEL)
             /\ sblock_op'.uid > UID_ROOT
          \/ sblocks[sblock_op'.blk].ref_count = REF_COUNT_MAX

\* C26: a block allocated with ref_count 1 and shared k times is given back
\* to the buddy allocator exactly once, by the (k+1)-th sblock_free; until
\* then it stays valid with 1 <= ref_count <= 255; a share that is refused
\* (no SHARE permission, KERNEL block shared to uid > ROOT, ref_count 255)
\* returns -1 and leaves ref_count unchanged, any other share returns 0.
C26_RefCountLifecycle ==
    /\ [](\A blk \in DOMAIN sblocks : Lifecycle(blk))
    /\ [][(sblock_op'.n # sblock_op.n /\ sblock_op'.op = "share")
          => \/ RefusedShare
             \/ /\ sblock_op'.ret = 0
                /\ sblocks'[sblock_op'.blk].ref_count
                     = sblocks[sblock_op'.blk].ref_count + 1
                /\ ~(\/ BitAnd(sblocks[sblock_op'.blk].permissions,
                               SBLOCK_SHARE) = 0
                     \/ /\ Flagged(sblock_op'.blk, SBLOCK_KERNEL)
                        /\ sblock_op'.uid > UID_ROOT
                     \/ sblocks[sblock_op'.blk].ref_count = REF_COUNT_MAX)]_vars

\* C26 witness: a block shared at least once went back to the allocator on
\* the free after its last reference.
C26_Witness ==
    /\ sblock_op.op = "free"
    /\ sblock_op.blk # NULL
    /\ sblock_op.hist[sblock_op.blk].shares >= 1
    /\ sblock_op.hist[sblock_op.blk].frees
         = sblock_op.hist[sblock_op.blk].shares + 1
    /\ sblock_op.hist[sblock_op.blk].released = 1
    /\ sblocks[sblock_op.blk].magic = SBLOCK_NO_MAGIC

\* A share of a block at ref_count 255 was refused.
C26_FullWitness ==
    /\ sblock_op.op = "share"
    /\ sblock_op.ret = -1
    /\ sblock_op.was = REF_COUNT_MAX
    /\ sblocks[sblock_op.blk].ref_count = REF_COUNT_MAX


(* ------------------------------ syscall.c ----------------------------- *)
SYS_GETPID == 20
SYS_KILL == 62
SYS_MSGSND == 71
SYS_MSGRCV == 72
PERM_SHELL_ACCESS == 8192     \* 0x2000

\* the 8 bytes of a uint64_t below 256, as &data points at them
Bytes8(data) == <<data, 0, 0, 0, 0, 0, 0, 0>>

\* a handler that returns ret and changes nothing
sys_return(R, ret) ==
    [heap |-> R.heap, msg |-> R.msg, sent |-> R.sent, last |-> R.last,
     ret |-> ret]

\* return msg_send(current_task->pid, dest, type, &data, sizeof(data))
sys_send(R, pid, dest, type, data) ==
    LET k == [type |-> type, size |-> 8,
              data |-> [null |-> FALSE, bytes |-> Bytes8(data)]]
        r == after_send(R, pid, dest, k)
    IN  [heap |-> r.heap, msg |-> r.msg, sent |-> r.sent, last |-> r.last,
         ret |-> r.ret]

\* mutant: the message is sent whatever the caller's perm_mask
sys_msgsnd_unchecked(R, S, dest, type, data) ==
    IF S.current_task = NULL THEN sys_return(R, -1)
    ELSE sys_send(R, S.tasks[S.current_task].pid, dest, type, data)

\* sys_msgsnd(dest, type, data)
sys_msgsnd(R, S, dest, type, data) ==
    IF S.current_task = NULL THEN sys_return(R, -1)
    ELSE IF Mask32And(S.tasks[S.current_task].perm_mask, PERM_MSG_SEND) = 0
    THEN sys_return(R, -1)
    ELSE sys_send(R, S.tasks[S.current_task].pid, dest, type, data)

\* sys_msgrcv(task_id)
sys_msgrcv(R, S, task_id) ==
    IF S.current_task = NULL THEN sys_return(R, -1)
    ELSE IF Mask32And(S.tasks[S.current_task].perm_mask, PERM_MSG_RECEIVE) = 0
    THEN sys_return(R, -1)
    ELSE sys_return(R, IF msg_available(R.msg, task_id) THEN 1 ELSE 0)

\* sys_getpid()
sys_getpid(R, S) ==
    sys_return(R, IF S.current_task # NULL
                  THEN S.tasks[S.current_task].pid ELSE 0)

\* syscall_handler(frame) with num = frame->rax, a1 = rdi, a2 = rsi,
\* a3 = rdx: ret is the int64_t stored to frame->rax (-1 stands for
\* 0xFFFFFFFFFFFFFFFF)
syscall_handler(R, S, num, a1, a2, a3) ==
    IF num = SYS_GETPID THEN sys_getpid(R, S)
    ELSE IF num = SYS_MSGSND THEN sys_msgsnd(R, S, a1, a2, a3)
    ELSE IF num = SYS_MSGRCV THEN sys_msgrcv(R, S, a1)
    ELSE sys_return(R, -1)

(* ---------------------- system call state machine --------------------- *)
\* System calls per run.
MaxSysCalls == 3
\* Numbers called: the two message calls, getpid, and three numbers the
\* switch has no case for (SYS_KILL is defined but reserved).
SysNumbers == {SYS_GETPID, SYS_MSGSND, SYS_MSGRCV, SYS_KILL, 2, 101}
SysDests == {0, 1, 2, MAX_TASKS}
SysData == {65, 66}
\* Values assigned to perm_mask, as kernel_main assigns the shell task's.
SysMasks == {Mask32(0, PERM_NONE), Mask32(0, PERM_MSG_SEND),
             Mask32(0, PERM_MSG_RECEIVE),
             Mask32(0, BitOr(PERM_SHELL_ACCESS,
                             BitOr(PERM_MSG_SEND, PERM_MSG_RECEIVE)))}

\* The kernel before scheduler_init, after it (the idle task runs), or with
\* one task created and switched to by the first timer interrupt.
SysBoot ==
    LET H == buddy_init(HeapStart, level_to_size(MaxRootLevel + 3))
        b == scheduler_init(H, NoTasks)
        c == task_create_priority(b.heap, b.sched, PRIORITY_NORMAL)
        sw == irq0(c.sched, 0)
    IN  {[heap |-> H, sched |-> NoTasks, ticks |-> 0],
         [heap |-> b.heap, sched |-> b.sched, ticks |-> 0],
         [heap |-> c.heap,
          sched |-> [c.sched EXCEPT !.tasks = sw.tasks,
                                    !.current_task = sw.current_task],
          ticks |-> timer_tick(0)]}

SysInit ==
    \E b \in SysBoot :
        /\ heap_size = b.heap.heap_size
        /\ free_lists = b.heap.free_lists
        /\ mem = b.heap.mem
        /\ bytes_allocated = b.heap.bytes_allocated
        /\ live = {}
        /\ last_op = [op |-> "init", arg |-> b.heap.heap_size, ret |-> NULL,
                      dup |-> FALSE]
        /\ tasks = b.sched.tasks
        /\ task_list = b.sched.task_list
        /\ current_task = b.sched.current_task
        /\ next_pid = b.sched.next_pid
        /\ sched_lock = b.sched.sched_lock
        /\ pit_ticks = b.ticks
        /\ sched_op = [op |-> "init", switched |-> FALSE, prev |-> NULL,
                       ret |-> NULL, path |-> "none", best |-> NULL]
        /\ pc = [x \in DOMAIN b.sched.tasks |-> Running]
        /\ slept = [x \in DOMAIN b.sched.tasks |-> NeverSlept]
        /\ stack_mem = b.sched.stack_mem
        /\ panicked = FALSE
        /\ KernelTables

\* current_task->perm_mask = mask
SysSetMask(mask) ==
    /\ sys_op.n < MaxSysCalls
    /\ current_task # NULL
    /\ tasks' = [tasks EXCEPT ![current_task].perm_mask = mask]
    /\ sys_op' = [NoSysCall EXCEPT !.op = "perm_mask", !.n = sys_op.n + 1]
    /\ UNCHANGED <<bvars, task_list, current_task, next_pid, sched_lock,
                   pit_ticks, sched_op, pc, slept, stack_mem, panicked,
                   pvars, mvars, irq_handlers, timer_ticks, irq_op, sblocks,
                   sblock_op, qvars>>

\* int 0x80 with rax = num, rdi = a1, rsi = a2, rdx = a3
Syscall(num, a1, a2, a3) ==
    /\ sys_op.n < MaxSysCalls
    /\ \E r \in {syscall_handler(RunNow, SchedNow, num, a1, a2, a3)} :
          /\ SetRun(r)
          /\ sys_op' = [op |-> "syscall", num |-> num, a1 |-> a1,
                        a2 |-> a2, a3 |-> a3, rax |-> r.ret,
                        n |-> sys_op.n + 1]
    /\ UNCHANGED <<live, last_op, svars, pvars, msg_op, irq_handlers,
                   timer_ticks, irq_op, sblocks, sblock_op, qvars>>

SysNext ==
    \/ \E mask \in SysMasks : SysSetMask(mask)
    \/ \E num \in SysNumbers, a1 \in SysDests, a3 \in SysData :
          Syscall(num, a1, MSG_TYPE_DATA, a3)

SpecSys == SysInit /\ [][SysNext]_vars

(* ------------------------ system call properties ---------------------- *)
\* The caller of the system call being made lacks perm in its perm_mask.
CallerLacks(perm) ==
    /\ current_task # NULL
    /\ Mask32And(tasks[current_task].perm_mask, perm) = 0

\* The switch of syscall_handler has a case for num (syscall.c:131-143).
SysKnown(num) == num \in {0, 1, 20, 96, 97, 24, 35, 60, 71, 72, 98, 99, 100}

\* C24: MSGSND (71) by a task whose perm_mask lacks MSG_SEND and MSGRCV (72)
\* by a task whose perm_mask lacks MSG_RECEIVE return -1 in frame->rax and
\* leave every message queue unchanged; an unknown syscall number returns -1
\* and changes no state at all.
C24_RefusedSyscalls ==
    [][(sys_op'.n # sys_op.n /\ sys_op'.op = "syscall")
       => /\ (\/ sys_op'.num = SYS_MSGSND /\ CallerLacks(PERM_MSG_SEND)
              \/ sys_op'.num = SYS_MSGRCV /\ CallerLacks(PERM_MSG_RECEIVE))
             => /\ sys_op'.rax = -1
                /\ UNCHANGED <<task_queues, queues, system_ticks>>
          /\ ~SysKnown(sys_op'.num)
             => /\ sys_op'.rax = -1
                /\ UNCHANGED <<bvars, svars, pvars, mvars, irq_handlers,
                               timer_ticks, irq_op, sblocks, sblock_op>>]_vars

\* C24 witness: a task without MSG_SEND called MSGSND for a task that could
\* have taken the message, and was refused.
C24_Witness ==
    /\ sys_op.op = "syscall"
    /\ sys_op.num = SYS_MSGSND
    /\ sys_op.a1 = 1
    /\ sys_op.rax = -1
    /\ CallerLacks(PERM_MSG_SEND)
    /\ tasks[current_task].pid # 0

\* A task that has MSG_SEND got its message queued by MSGSND.
C24_SentWitness ==
    /\ sys_op.op = "syscall"
    /\ sys_op.num = SYS_MSGSND
    /\ sys_op.rax = 0
    /\ msg_count(MsgNow, sys_op.a1) > 0


(* -------------------- permission properties, continued ---------------- *)
\* Task id holds the capability bit: its entry is active and has the bit
\* (what perm_get reports).
Holds(id, bit) == BitAnd(perm_get(PermNow, id), bit) # 0

C32_CollisionWitness ==
    /\ perm_op.op = "create"
    /\ perm_op.ret = -1
    /\ perm_op.target < MAX_TASKS
    /\ perm_op.target # 0
    /\ Holds(perm_op.parent, PERM_TASK_CREATE)
    /\ perm_table[perm_op.target].active


\* The administrative capability bits.
AdminBits == {PERM_PERM_GRANT, PERM_PERM_REVOKE, PERM_KERNEL_MODE}

\* C38: no privilege amplification: a task other than task 0 comes to hold
\* PERM_GRANT, PERM_REVOKE or KERNEL_MODE only through a call whose caller
\* (the parent of perm_create_task, the granter of perm_grant) held the same
\* bit or KERNEL_MODE at that time.
C38_NoAmplification ==
    [][\A t \in 1 .. MaxPermId : \A b \in AdminBits :
          (~Holds(t, b) /\ Holds(t, b)')
          => \/ Holds(perm_op'.caller, b)
             \/ Holds(perm_op'.caller, PERM_KERNEL_MODE)]_vars

\* A task holding PERM_GRANT but not KERNEL_MODE has just handed out
\* KERNEL_MODE by perm_grant.
C38_GrantedKernelMode ==
    /\ perm_op.op = "grant"
    /\ perm_op.ret = 0
    /\ perm_op.caller # 0
    /\ BitAnd(perm_op.perms, PERM_KERNEL_MODE) # 0
    /\ Holds(perm_op.target, PERM_KERNEL_MODE)


(* ---------------------- message properties, continued ----------------- *)
\* The stored message m is the one recorded as e when it was sent.
SameMessage(m, e) ==
    /\ m.sender_id = e.sender
    /\ m.type = e.kind.type
    /\ m.size = e.kind.size
    /\ \A i \in 1 .. e.kind.size :
          ~e.kind.data.null => ByteAt(m.data, i) = e.kind.data.bytes[i]

\* The queue of task i holds, from read_pos on and around the end of the
\* ring, exactly the messages sent to i and not yet received, oldest first.
IsFifo(i) ==
    \/ task_queues[i] = NULL /\ msg_sent[i] = << >>
    \/ /\ task_queues[i] # NULL
       /\ LET q == queues[task_queues[i]]
          IN /\ q.count >= 0 /\ q.count <= MSG_QUEUE_SIZE
             /\ q.read_pos >= 0 /\ q.read_pos < MSG_QUEUE_SIZE
             /\ q.write_pos >= 0 /\ q.write_pos < MSG_QUEUE_SIZE
             /\ q.write_pos = (q.read_pos + q.count) % MSG_QUEUE_SIZE
             /\ Len(msg_sent[i]) = q.count
             /\ \A j \in 1 .. q.count :
                   SameMessage(q.messages[(q.read_pos + j - 1)
                                            % MSG_QUEUE_SIZE],
                               msg_sent[i][j])

\* C36: under any sequence of msg_send, msg_receive and msg_clear calls
\* each queue is a bounded FIFO of capacity 64: 0 <= count <= 64, read_pos
\* and write_pos are below 64, write_pos = (read_pos + count) mod 64, the
\* ring holds the unreceived messages in sending order, and msg_receive
\* returns the oldest of them, also after the positions have wrapped.
C36_BoundedFifo ==
    /\ [](\A i \in 0 .. (MAX_TASKS - 1) : IsFifo(i))
    /\ [][(msg_op'.n = msg_op.n + 1 /\ msg_op'.op = "receive"
           /\ msg_op'.ret = 0)
          => /\ msg_sent[msg_op'.receiver] # << >>
             /\ SameMessage(msg_op'.out, Head(msg_sent[msg_op'.receiver]))
             /\ msg_sent'[msg_op'.receiver]
                  = Tail(msg_sent[msg_op'.receiver])]_vars

\* C36 witness: a receive has moved read_pos from the last slot of the ring
\* back to slot 0 while write_pos, which wrapped earlier, is ahead of it.
C36_Witness ==
    /\ msg_op.op = "receive"
    /\ msg_op.ret = 0
    /\ msg_op.receiver = 1
    /\ queues[task_queues[1]].read_pos = 0
    /\ queues[task_queues[1]].write_pos = 1
    /\ queues[task_queues[1]].count = 1

\* A full queue whose write_pos has wrapped around to read_pos.
C36_FullWitness ==
    /\ task_queues[1] # NULL
    /\ queues[task_queues[1]].count = MSG_QUEUE_SIZE
    /\ queues[task_queues[1]].read_pos = 1
    /\ queues[task_queues[1]].write_pos = 1


(* --------------------------- round robin ------------------------------ *)
\* The task with pid p.
TaskOfPid(p) == CHOOSE t \in DOMAIN tasks : tasks[t].pid = p

\* Task t is one of the equals: it has the priority of T1, the numerically
\* lowest among the runnable tasks.
IsEqual(t) == tasks[t].priority = tasks[TaskOfPid(1)].priority

\* The first of the equals behind t in ring order.
RECURSIVE NextEqual(_)
NextEqual(t) ==
    IF IsEqual(tasks[t].next) THEN tasks[t].next
    ELSE NextEqual(tasks[t].next)

\* The task with pid p has just been given the CPU by a switch away from
\* another task.
SwitchedIn(p) ==
    /\ current_task = TaskOfPid(p)
    /\ tasks[current_task].state = TASK_RUNNING
    /\ sched_op.switched
    /\ sched_op.prev # current_task

\* C37: round robin among equals: with several tasks sharing the
\* numerically lowest priority, none sleeping or exiting, and the timer
\* ticking on, each of them that does not have the CPU is made RUNNING
\* later on (up to the last RoundRobinWindow ticks of a run), and the tick
\* at which the running one's quantum reaches 0 selects the next of them in
\* ring order, not the same task again; so each is RUNNING again and again.
C37_RoundRobin ==
    /\ \A p \in 1 .. 3 :
          (/\ pit_ticks <= RoundRobinTicks - RoundRobinWindow
           /\ IsEqual(TaskOfPid(p))
           /\ current_task # TaskOfPid(p))
             ~> SwitchedIn(p)
    /\ [][(/\ pit_ticks' = pit_ticks + 1
           /\ IsEqual(current_task)
           /\ tasks[current_task].state = TASK_RUNNING
           /\ tasks[current_task].quantum <= 1)
          => /\ current_task' = NextEqual(current_task)
             /\ current_task' # current_task
             /\ tasks'[current_task'].state = TASK_RUNNING
             /\ tasks'[current_task'].quantum
                  = tasks[current_task'].base_quantum]_vars

\* C37 witness: T3, the last of three equals with a quantum of 5 ticks, has
\* the CPU for the second time, handed over by T2.
C37_Witness ==
    /\ SwitchedIn(3)
    /\ IsEqual(current_task)
    /\ tasks[current_task].base_quantum = 5
    /\ sched_op.prev = TaskOfPid(2)
    /\ tasks[current_task].cpu_time >= 5

(* ------------------ the syscall gate and the table -------------------- *)
PERM_MEMORY_ALLOC == 1        \* 0x0001
PERM_MEMORY_FREE == 2         \* 0x0002

\* kernel_main: perm_init, perm_create_task(1, 0, user permissions)
GateTable ==
    perm_create_task(perm_init, 1, 0,
        BitOr(PERM_MEMORY_ALLOC,
        BitOr(PERM_MEMORY_FREE,
        BitOr(PERM_MSG_SEND,
        BitOr(PERM_MSG_RECEIVE, PERM_SHELL_ACCESS))))).perm

\* kernel_main: scheduler_init, the shell task created at priority HIGH with
\* its perm_mask assigned, and the first timer interrupt, which switches to
\* it.
GateBoot ==
    LET H == buddy_init(HeapStart, level_to_size(MaxRootLevel + 3))
        b == scheduler_init(H, NoTasks)
        c == task_create_priority(b.heap, b.sched, PRIORITY_HIGH)
        m == [c.sched.tasks EXCEPT ![c.ret].perm_mask =
                 Mask32(0, BitOr(PERM_SHELL_ACCESS,
                                 BitOr(PERM_MSG_SEND, PERM_MSG_RECEIVE)))]
        sw == irq0([c.sched EXCEPT !.tasks = m], 0)
    IN  [heap |-> c.heap,
         sched |-> [c.sched EXCEPT !.tasks = sw.tasks,
                                   !.current_task = sw.current_task],
         ticks |-> timer_tick(0)]

\* The booted kernel: task 1 of the permission table holds the user
\* permissions, the shell task (pid 1) is running.
GateInit ==
    \E b \in {GateBoot}, P \in {GateTable} :
        /\ heap_size = b.heap.heap_size
        /\ free_lists = b.heap.free_lists
        /\ mem = b.heap.mem
        /\ bytes_allocated = b.heap.bytes_allocated
        /\ live = {}
        /\ last_op = [op |-> "init", arg |-> b.heap.heap_size, ret |-> NULL,
                      dup |-> FALSE]
        /\ tasks = b.sched.tasks
        /\ task_list = b.sched.task_list
        /\ current_task = b.sched.current_task
        /\ next_pid = b.sched.next_pid
        /\ sched_lock = b.sched.sched_lock
        /\ pit_ticks = b.ticks
        /\ sched_op = [op |-> "init", switched |-> FALSE, prev |-> NULL,
                       ret |-> NULL, path |-> "none", best |-> NULL]
        /\ pc = [x \in DOMAIN b.sched.tasks |-> Running]
        /\ slept = [x \in DOMAIN b.sched.tasks |-> NeverSlept]
        /\ stack_mem = b.sched.stack_mem
        /\ panicked = FALSE
        /\ Devices
        /\ NoSblocks
        /\ perm_table = P.table
        /\ perm_timestamp = P.timestamp
        /\ perm_op = NoPermCall
        /\ task_queues = msg_init.task_queues
        /\ queues = msg_init.queues
        /\ system_ticks = msg_init.system_ticks
        /\ msg_op = NoMsgCall
        /\ msg_sent = [i \in 0 .. (MAX_TASKS - 1) |-> << >>]
        /\ msg_last = [i \in 0 .. (MAX_TASKS - 1) |-> 0]

\* The kernel task and task 1 grant and revoke the two message
\* capabilities of task 1; the running task makes system calls.
GateNext ==
    \/ \E g \in 0 .. 1, perms \in {PERM_MSG_SEND, PERM_MSG_RECEIVE} :
          PermGrant(g, 1, perms)
    \/ \E r \in 0 .. 1, perms \in {PERM_MSG_SEND, PERM_MSG_RECEIVE} :
          PermRevoke(r, 1, perms)
    \/ \E num \in {SYS_MSGSND, SYS_MSGRCV, SYS_GETPID}, a1 \in {1, 2},
          a3 \in SysData :
          Syscall(num, a1, MSG_TYPE_DATA, a3)

SpecGate == GateInit /\ [][GateNext]_vars

\* C39: the capability the syscall gate consults agrees with the permission
\* table: a MSGSND system call made by task t while the table denies t
\* PERM_MSG_SEND (after a successful perm_revoke) returns -1, and one made
\* while the table allows it (after perm_grant) is carried out.
C39_GateFollowsTable ==
    [][(/\ sys_op'.n = sys_op.n + 1
        /\ sys_op'.op = "syscall"
        /\ sys_op'.num = SYS_MSGSND
        /\ current_task # NULL)
       => IF perm_check(PermNow, tasks[current_task].pid, PERM_MSG_SEND)
          THEN /\ sys_op'.rax = 0
               /\ msg_count(MsgThen, sys_op'.a1)
                    = msg_count(MsgNow, sys_op'.a1) + 1
          ELSE /\ sys_op'.rax = -1
               /\ UNCHANGED <<task_queues, queues>>]_vars

\* perm_revoke(0, 1, PERM_MSG_SEND) has succeeded, and task 1 has then
\* made a MSGSND system call.
C39_RevokedThenSent ==
    /\ perm_op.op = "revoke"
    /\ perm_op.ret = 0
    /\ perm_op.target = 1
    /\ perm_op.perms = PERM_MSG_SEND
    /\ ~perm_check(PermNow, 1, PERM_MSG_SEND)
    /\ tasks[current_task].pid = 1
    /\ sys_op.op = "syscall"
    /\ sys_op.num = SYS_MSGSND
    /\ sys_op.n = 1
    /\ sys_op.rax = 0


(* ------------------------ module state machine ------------------------ *)
\* Calls into module.c per run, and modules registered at a time.
MaxModCalls == 4
MaxModules == 3
ModNames == {"a", "b", "c", ""}
ModPriorities == {MOD_PRIORITY_CORE, MOD_PRIORITY_DRIVER}
\* Dependency lists: none, one module, and a list whose second name ("z")
\* is never registered.
ModDepends == {<< >>, <<"a">>, <<"b", "z">>}
\* init callbacks: none, one that returns 0, one that returns -5.
ModInits == {[null |-> TRUE, ret |-> 0], [null |-> FALSE, ret |-> 0],
             [null |-> FALSE, ret |-> -5]}

ModCall ==
    /\ mod_op.n < MaxModCalls
    /\ UNCHANGED <<bvars, svars, pvars, mvars, kvars, switch_call, panic_st,
                   msg_run, kbd>>

\* module_register(&mod) for a module descriptor not in the list
ModRegister(name, priority, depends, init) ==
    /\ ModCall
    /\ Len(module_list) < MaxModules
    /\ \E r \in {module_register(module_list,
                    [name |-> name, priority |-> priority,
                     state |-> MOD_STATE_UNLOADED, depends |-> depends,
                     init |-> init])} :
          /\ module_list' = r.list
          /\ mod_op' = [op |-> "register", name |-> name, ret |-> r.ret,
                        log |-> << >>, n |-> mod_op.n + 1]

\* module_unregister(name)
ModUnregister(name) ==
    /\ ModCall
    /\ \E r \in {module_unregister(module_list, name)} :
          /\ module_list' = r.list
          /\ mod_op' = [op |-> "unregister", name |-> name, ret |-> r.ret,
                        log |-> << >>, n |-> mod_op.n + 1]

\* modules_init()
ModulesInit ==
    /\ ModCall
    /\ \E r \in {modules_init(module_list)} :
          /\ module_list' = r.list
          /\ mod_op' = [op |-> "modules_init", name |-> "", ret |-> 0,
                        log |-> r.log, n |-> mod_op.n + 1]

ModNext ==
    \/ \E name \in ModNames, priority \in ModPriorities,
          depends \in ModDepends, init \in ModInits :
          ModRegister(name, priority, depends, init)
    \/ \E name \in ModNames : ModUnregister(name)
    \/ ModulesInit

\* The kernel at boot, before any module is registered.
ModInit == Init /\ heap_size = level_to_size(MaxRootLevel)

SpecMod == ModInit /\ [][ModNext]_vars

\* The state of the module called name in list L ("none": no such module).
StateIn(L, name) ==
    IF module_find(L, name) = 0 THEN "none"
    ELSE L[module_find(L, name)].state

\* Every dependency of the module at position i of L is LOADED in L.
DependsLoadedIn(L, i) ==
    \A d \in 1 .. Len(L[i].depends) :
        StateIn(L, L[i].depends[d]) = MOD_STATE_LOADED

\* The loads that modules_init made of the module called name.
LoadsOf(name) ==
    {e \in 1 .. Len(mod_op'.log) : mod_op'.log[e].name = name}

\* C40: after modules_init() no module is LOADING; a module it set LOADED
\* had all its dependencies LOADED at the time of its load and an init
\* callback, if any, that returned 0; a module it found UNLOADED with a
\* dependency missing or not LOADED at that time is in ERROR and its init
\* was not called.
C40_ModulesInit ==
    [][(mod_op'.n = mod_op.n + 1 /\ mod_op'.op = "modules_init")
       => /\ Len(module_list') = Len(module_list)
          /\ \A i \in 1 .. Len(module_list) :
               LET m == module_list[i]
                   after == module_list'[i]
               IN  /\ after.name = m.name
                   /\ after.state # MOD_STATE_LOADING
                   /\ after.state # MOD_STATE_UNLOADED
                   /\ m.state # MOD_STATE_UNLOADED
                        => after.state = m.state /\ LoadsOf(m.name) = {}
                   /\ m.state = MOD_STATE_UNLOADED
                        => \E e \in LoadsOf(m.name) :
                             LET ev == mod_op'.log[e]
                                 deps == DependsLoadedIn(ev.list, i)
                             IN  /\ LoadsOf(m.name) = {e}
                                 /\ ev.list[i].state = MOD_STATE_LOADING
                                 /\ after.state = MOD_STATE_LOADED
                                      <=> (deps /\ ev.ret = 0)
                                 /\ ~deps => /\ after.state = MOD_STATE_ERROR
                                             /\ ~ev.called
                                 /\ ev.called
                                      <=> (deps /\ ~m.init.null)
                                 /\ ev.called => ev.ret = m.init.ret]_vars

\* C40 witness: modules_init has loaded a module whose dependency it had
\* loaded before, and refused one whose dependency was not LOADED.
C40_Witness ==
    /\ mod_op.op = "modules_init"
    /\ \E i, j \in 1 .. Len(module_list) :
          /\ module_list[i].state = MOD_STATE_LOADED
          /\ module_list[i].depends # << >>
          /\ module_list[j].state = MOD_STATE_ERROR
          /\ module_list[j].depends # << >>
          /\ ~module_list[j].init.null
          /\ module_list[j].init.ret = 0
          /\ \E e \in 1 .. Len(mod_op.log) :
                /\ mod_op.log[e].name = module_list[j].name
                /\ ~mod_op.log[e].called


(* ----------------------- keyboard state machine ----------------------- *)
\* Keystrokes and keyboard_getchar statements per run.
MaxKbdSteps == 6
\* Characters typed: 'A', 'B', and a scancode that maps to no character.
KbdKeys == {65, 66, 0}

\* k keystrokes have arrived, the letters 'a' to 'z' in turn.
RECURSIVE type_keys(_, _)
RECURSIVE type_rest(_, _)
type_keys(K, k) ==
    IF k = 0 THEN K
    ELSE IF k = 1 THEN kbd_enqueue(K, 97 + (Len(K.accepted) % 26))
    ELSE type_rest(type_keys(K, k \div 2), k - (k \div 2))
type_rest(K, k) ==
    IF K.write_pos >= 0 THEN type_keys(K, k) ELSE K

\* k keyboard_getchar calls have returned.
RECURSIVE read_keys(_, _)
RECURSIVE read_rest(_, _)
read_keys(K, k) ==
    IF k = 0 THEN K
    ELSE IF k = 1 THEN keyboard_getchar(K)
    ELSE read_rest(read_keys(K, k \div 2), k - (k \div 2))
read_rest(K, k) ==
    IF K.read_pos >= 0 THEN read_keys(K, k) ELSE K

\* The keyboard after keyboard_init; with the ring two characters short of
\* full; and with both positions near the end of the ring.
KbdStarts ==
    {keyboard_init,
     type_keys(keyboard_init, KBD_BUFFER_SIZE - 3),
     read_keys(type_keys(keyboard_init, KBD_BUFFER_SIZE - 1),
               KBD_BUFFER_SIZE - 3)}

KbdInit ==
    /\ \E K \in KbdStarts : QuietWith(K, NoMsgRun)
    /\ BuddyInit
    /\ heap_size = level_to_size(MaxRootLevel)
    /\ NoScheduler
    /\ Interrupts
    /\ NoSblocks
    /\ MsgPermTables

SetKbd(K, op, key) ==
    /\ kbd.n < MaxKbdSteps
    /\ kbd' = [K EXCEPT !.op = op, !.key = key, !.n = kbd.n + 1]
    /\ UNCHANGED <<bvars, svars, pvars, mvars, kvars, switch_call, panic_st,
                   msg_run, module_list, mod_op>>

\* IRQ1: keyboard_handler runs to its end, with interrupts off, wherever
\* keyboard_getchar stands
KbdIrq(c) ==
    /\ kbd.n < MaxKbdSteps
    /\ SetKbd(kbd_enqueue(kbd, c), "irq", c)

\* the shell executes the next statement of keyboard_getchar; in the wait
\* loop with an empty ring it halts until the next interrupt
KbdGetcharStep ==
    /\ ~(kbd.call.at = "out" /\ kbd.read_pos = kbd.write_pos)
    /\ SetKbd(getchar_step(kbd), "getchar", 0)

KbdNext ==
    \/ \E c \in KbdKeys : KbdIrq(c)
    \/ KbdGetcharStep

SpecKbd == KbdInit /\ [][KbdNext]_vars

\* The characters accepted and not yet delivered.
Unread(K) == Len(K.accepted) - Len(K.delivered)

\* C35: with the IRQ1 handler running between any two statements of
\* keyboard_getchar, the characters are delivered in the order they were
\* accepted, each once; the ring never holds more than KBD_BUFFER_SIZE - 1
\* unread characters, which lie in the ring from kbd_read_pos on; and a
\* character arriving when the next write position equals kbd_read_pos is
\* dropped and leaves the ring and the positions as they were.
C35_KeyboardRing ==
    /\ [](/\ Len(kbd.delivered) <= Len(kbd.accepted)
          /\ kbd.delivered = SubSeq(kbd.accepted, 1, Len(kbd.delivered))
          /\ kbd.call.at = "advance"
               => kbd.call.c = kbd.accepted[Len(kbd.delivered) + 1]
          /\ Unread(kbd) <= KBD_BUFFER_SIZE - 1
          /\ Unread(kbd) = (kbd.write_pos + KBD_BUFFER_SIZE - kbd.read_pos)
                              % KBD_BUFFER_SIZE
          /\ \A j \in 0 .. (Unread(kbd) - 1) :
                kbd.buffer[(kbd.read_pos + j) % KBD_BUFFER_SIZE]
                   = kbd.accepted[Len(kbd.delivered) + 1 + j])
    /\ [][(/\ kbd'.n = kbd.n + 1
           /\ kbd'.op = "irq"
           /\ kbd'.key # 0)
          => IF (kbd.write_pos + 1) % KBD_BUFFER_SIZE = kbd.read_pos
             THEN /\ kbd'.buffer = kbd.buffer
                  /\ kbd'.read_pos = kbd.read_pos
                  /\ kbd'.write_pos = kbd.write_pos
                  /\ kbd'.accepted = kbd.accepted
             ELSE kbd'.accepted = Append(kbd.accepted, kbd'.key)]_vars

\* C35 witness: a keystroke arrived between keyboard_getchar's read of the
\* character and its advance of kbd_read_pos and moved kbd_write_pos around
\* the end of the ring; keyboard_getchar has returned.
C35_Witness ==
    /\ kbd.op = "getchar"
    /\ kbd.call.at = "out"
    /\ kbd.read_pos = KBD_BUFFER_SIZE - 2
    /\ kbd.write_pos = 0
    /\ Len(kbd.delivered) = KBD_BUFFER_SIZE - 2
    /\ Unread(kbd) = 2

\* A character was dropped at a full ring.
C35_DroppedWitness ==
    /\ kbd.op = "irq"
    /\ kbd.key # 0
    /\ (kbd.write_pos + 1) % KBD_BUFFER_SIZE = kbd.read_pos
    /\ Unread(kbd) = KBD_BUFFER_SIZE - 1
    /\ kbd.n >= 3


(* ------------------ preempted message calls --------------------------- *)
\* Statements executed per run.
MaxMsgSteps == 14
\* Tasks 1 and 2 send to task 3, task 3 receives.
MsgRunSenders == {1, 2}
MsgRunReceiver == 3

SetMsgRun(R) ==
    /\ msg_run.n < MaxMsgSteps
    /\ msg_run' = [R EXCEPT !.n = msg_run.n + 1]
    /\ UNCHANGED <<bvars, svars, pvars, mvars, kvars, switch_call, panic_st,
                   kbd, module_list, mod_op>>

\* task p calls msg_send(p, 3, ...) and is at the capacity check
RunSendBegin(p) ==
    /\ msg_run.calls[p].at = "out"
    /\ SetMsgRun(call_begin(msg_run, p, "check"))

\* task p, scheduled, executes the next statement of its msg_send
RunSendStep(p) ==
    /\ msg_run.calls[p].at # "out"
    /\ SetMsgRun(send_step(msg_run, p))

\* task 3 calls msg_receive(3, &msg) and is at the wait loop
RunReceiveBegin ==
    /\ msg_run.calls[MsgRunReceiver].at = "out"
    /\ SetMsgRun(call_begin(msg_run, MsgRunReceiver, "wait"))

\* task 3, scheduled, executes the next statement of its msg_receive; in
\* the wait loop with count == 0 it halts
RunReceiveStep ==
    /\ msg_run.calls[MsgRunReceiver].at # "out"
    /\ ~(msg_run.calls[MsgRunReceiver].at = "wait" /\ msg_run.q.count = 0)
    /\ SetMsgRun(receive_step(msg_run, MsgRunReceiver))

MsgRunNext ==
    \/ \E p \in MsgRunSenders : RunSendBegin(p)
    \/ \E p \in MsgRunSenders : RunSendStep(p)
    \/ RunReceiveBegin
    \/ RunReceiveStep

SpecMsgRun == ModInit /\ [][MsgRunNext]_vars

\* How often x occurs in the sequence s.
Occurrences(s, x) == Cardinality({i \in 1 .. Len(s) : s[i] = x})

\* The ids of the messages in the unread range of the ring, oldest first.
Queued(R) ==
    [j \in 1 .. R.q.count |->
        ByteAt(R.q.messages[(R.q.read_pos + j - 1) % MSG_QUEUE_SIZE].data, 1)]

\* C34: with the tasks preempted between any two statements of msg_send and
\* msg_receive on one queue, once the calls have completed count is the
\* number of messages sent and not yet received, and every message sent is
\* either in the queue or was received, once: none is lost, overwritten or
\* delivered twice.
C34_NoLostMessage ==
    (\A p \in 1 .. 3 : msg_run.calls[p].at = "out")
    => /\ msg_run.q.count = Len(msg_run.sent) - Len(msg_run.received)
       /\ \A i \in 1 .. Len(msg_run.sent) :
             Occurrences(msg_run.received, msg_run.sent[i])
               + Occurrences(Queued(msg_run), msg_run.sent[i]) = 1

\* Two msg_send calls have both returned 0, the queue counts two messages,
\* and the first message sent is in neither slot.
C34_Overwritten ==
    /\ \A p \in 1 .. 3 : msg_run.calls[p].at = "out"
    /\ Len(msg_run.sent) = 2
    /\ msg_run.received = << >>
    /\ msg_run.q.count = 2
    /\ Occurrences(Queued(msg_run), msg_run.sent[1]) = 0


(* ------------------------- panic state machine ------------------------ *)
\* kernel_panic calls per run.
MaxPanics == 3

\* A timer interrupt while no panic has happened: scheduler_switch, and
\* kernel_panic when it finds the canary of the current task broken.
PanicTick(limit) ==
    /\ panic_st.at = "run"
    /\ pit_ticks < limit
    /\ \E sw \in {irq0(SchedNow, pit_ticks)} :
          /\ SwitchedTo("tick", sw)
          /\ panic_st' = IF sw.panic THEN kernel_panic(panic_st)
                         ELSE panic_st
    /\ UNCHANGED <<task_list, next_pid, stack_mem, pc, bvars, pvars, mvars,
                   kvars, switch_call, msg_run, kbd, module_list, mod_op>>

\* A CPU exception, raised by whatever code runs (a task, or the shell that
\* kernel_panic restarted): exception_handler dumps the registers and calls
\* PANIC("Unhandled CPU Exception").
CpuException ==
    /\ panic_st.at # "halt"
    /\ panic_st.recoveries < MaxPanics
    /\ panic_st' = kernel_panic(panic_st)
    /\ panicked' = TRUE
    /\ UNCHANGED <<tasks, task_list, current_task, next_pid, sched_lock,
                   pit_ticks, sched_op, pc, slept, stack_mem, bvars, pvars,
                   mvars, kvars, switch_call, msg_run, kbd, module_list,
                   mod_op>>

PanicNext ==
    \/ PanicTick(MaxTicks)
    \/ CpuException
    \/ \E p \in CreatePriorities : TaskCreate(p)
    \/ \E x \in DOMAIN tasks : Corrupt(x)

SpecPanic == SchedInit /\ [][PanicNext]_vars

\* C33: kernel_panic attempts the soft recovery at most once: a panic
\* during or after the recovery goes to the hlt loop and not into another
\* recovery, and the hlt loop, once reached, is never left.
C33_RecoverOnce ==
    /\ [](panic_st.recoveries <= 1)
    /\ [][panic_st.at = "halt" => panic_st'.at = "halt"]_vars

\* A stack overflow panic has restarted the shell, and an exception in the
\* restarted shell has restarted it again.
C33_SecondRecovery ==
    /\ panic_st.at = "recovery"
    /\ panic_st.recoveries = 2
    /\ sched_op.path = "panic"

(* ------------------- scheduler_switch, re-entered --------------------- *)
\* The rsp arguments of the calls that start while one is in progress.
NestedRsps == {HeapStart + 64, HeapStart + 128}

\* What stays as it is while scheduler_switch is between its statements.
SwitchCall ==
    /\ switch_call.n < MaxTicks
    /\ UNCHANGED <<task_list, next_pid, stack_mem, pc, slept, bvars, pvars,
                   mvars, kvars, panic_st, msg_run, kbd, module_list,
                   mod_op>>

\* The timer interrupt: timer_tick(), and scheduler_switch(rsp) takes the
\* lock, saves rsp and charges the tick
SwitchBegin ==
    /\ SwitchCall
    /\ ~panicked
    /\ switch_call.at = "out"
    /\ current_task # NULL
    /\ sched_lock = 0
    /\ \E S \in {switch_enter(SchedNow, StackPtr(tasks, current_task))} :
          /\ tasks' = S.tasks
          /\ sched_lock' = S.sched_lock
    /\ pit_ticks' = timer_tick(pit_ticks)
    /\ switch_call' = [at |-> "in", op |-> "begin",
                       rsp |-> StackPtr(tasks, current_task),
                       arg |-> 0, ret |-> 0, n |-> switch_call.n + 1]
    /\ UNCHANGED <<current_task, sched_op, panicked>>

\* scheduler_switch(rsp) is called while the first call is between its
\* statements, and returns
NestedSwitch(rsp) ==
    /\ SwitchCall
    /\ switch_call.at = "in"
    /\ \E r \in {scheduler_switch(SchedNow, pit_ticks, rsp)} :
          /\ tasks' = r.tasks
          /\ current_task' = r.current_task
          /\ sched_lock' = r.sched_lock
          /\ panicked' = (panicked \/ r.panic)
          /\ switch_call' = [switch_call EXCEPT !.op = "nested",
                                                !.arg = rsp, !.ret = r.ret,
                                                !.n = @ + 1]
    /\ UNCHANGED <<pit_ticks, sched_op>>

\* the first call goes on from the canary check to its end
SwitchEnd ==
    /\ SwitchCall
    /\ switch_call.at = "in"
    /\ \E r \in {switch_finish(SchedNow, pit_ticks, switch_call.rsp)} :
          /\ tasks' = r.tasks
          /\ current_task' = r.current_task
          /\ sched_lock' = r.sched_lock
          /\ panicked' = (panicked \/ r.panic)
          /\ sched_op' = [op |-> "tick", switched |-> TRUE,
                          prev |-> current_task, ret |-> r.ret,
                          path |-> r.path, best |-> r.best]
          /\ switch_call' = [switch_call EXCEPT !.at = "out", !.op = "end",
                                                !.ret = r.ret, !.n = @ + 1]
    /\ UNCHANGED pit_ticks

\* Between interrupts the running task creates tasks or overruns a stack.
LockNext ==
    \/ SwitchBegin
    \/ \E rsp \in NestedRsps : NestedSwitch(rsp)
    \/ SwitchEnd
    \/ switch_call.at = "out" /\ \E p \in CreatePriorities : TaskCreate(p)
    \/ switch_call.at = "out" /\ \E x \in DOMAIN tasks : Corrupt(x)

SpecLock == SchedInit /\ [][LockNext]_vars

\* C31: a scheduler_switch call that starts while sched_lock is set returns
\* its rsp argument and changes no task (state, quantum, cpu_time, rsp),
\* not current_task and not the lock; and whenever no call is in progress,
\* after every exit of the outermost call, the stack-overflow panic
\* included, sched_lock is 0.
C31_LockedSwitchReturns ==
    /\ [][(/\ switch_call'.n = switch_call.n + 1
           /\ switch_call'.op = "nested"
           /\ sched_lock # 0)
          => /\ switch_call'.ret = switch_call'.arg
             /\ tasks' = tasks
             /\ current_task' = current_task
             /\ sched_lock' = sched_lock
             /\ panicked' = panicked]_vars
    /\ [](switch_call.at = "out" => sched_lock = 0)

\* C31 witness: a call that started while the lock was set has returned,
\* and the first call has then ended in the stack-overflow panic.
C31_Witness ==
    /\ switch_call.op = "end"
    /\ switch_call.at = "out"
    /\ switch_call.arg # 0
    /\ panicked
    /\ sched_op.path = "panic"

\* A call that started while the lock was set has returned, and the first
\* call has then switched to another task.
C31_SwitchWitness ==
    /\ switch_call.op = "end"
    /\ switch_call.arg # 0
    /\ sched_op.path = "switch"
    /\ sched_op.prev # current_task

====
